---------------------------- MODULE Spec2Model ----------------------------
(***************************************************************************)
(* A state-machine model of the gb_rust Game Boy emulation core: the SM83  *)
(* CPU step (interrupt dispatch, EI delay, HALT and the HALT bug), the     *)
(* memory bus with its per-access timer tick, the divider/timer, the PPU   *)
(* mode/line timing with its pixel-FIFO drawing loop, the frame drivers of *)
(* gameboy.rs and the save-state serializer of savestate.rs.               *)
(*                                                                         *)
(* Memories are total arrays in the program.  They are represented here as *)
(* sparse functions: an address outside the function's domain holds 0, the *)
(* value every array is created with, and a write of 0 removes the entry,  *)
(* so one array has exactly one representation.                            *)
(***************************************************************************)
EXTENDS Integers, Sequences, FiniteSets, TLC

VARIABLES
    gb,      \* the emulator (GameBoy.cpu with its bus and devices)
    trace,   \* one record per run_step call made so far
    keys,    \* number of host key events delivered so far
    frame,   \* the run_frame loop: cycles_this_frame, the call's state
    pp,      \* the PPU driven on its own, with its T-cycle bookkeeping
    sv,      \* the save-state scenario: second emulator, blob, result
    dev      \* one device driven on its own: the APU, a cartridge, the bus

vars == <<gb, trace, keys, frame, pp, sv, dev>>

(***************************************************************************)
(* Bounds of the model.                                                    *)
(***************************************************************************)
ProgLen == 3        \* bytes of program placed at the entry point
MaxSteps == 5       \* run_step calls explored per behaviour
MaxKeys == 1        \* host key events explored per behaviour

(***************************************************************************)
(* Bit arithmetic on bytes and words.                                      *)
(***************************************************************************)
Bit(x, i) == (x \div (2 ^ i)) % 2

BitAnd(a, b) ==
    Bit(a, 0) * Bit(b, 0) + 2 * Bit(a, 1) * Bit(b, 1)
    + 4 * Bit(a, 2) * Bit(b, 2) + 8 * Bit(a, 3) * Bit(b, 3)
    + 16 * Bit(a, 4) * Bit(b, 4) + 32 * Bit(a, 5) * Bit(b, 5)
    + 64 * Bit(a, 6) * Bit(b, 6) + 128 * Bit(a, 7) * Bit(b, 7)

BitOr(a, b) == a + b - BitAnd(a, b)

W8(x) == (x + 256) % 256

W16(x) == (x + 65536) % 65536

\* The value of an expression evaluated once and used in several places.
Only(S) == CHOOSE x \in S : TRUE

EmptyMem == [j \in {} |-> 0]

Rd(f, i) == IF i \in DOMAIN f THEN f[i] ELSE 0

Wr(f, i, v) ==
    IF v = 0
    THEN [j \in (DOMAIN f) \ {i} |-> f[j]]
    ELSE [j \in (DOMAIN f) \cup {i} |-> IF j = i THEN v ELSE f[j]]

(***************************************************************************)
(* Opcodes of the instruction subset the model executes.                   *)
(***************************************************************************)
OpNOP == 0
OpINCB == 4
OpLDBd8 == 6
OpHALT == 118
OpRETI == 217
OpDI == 243
OpEI == 251
OpJR == 24

\* The opcodes programs of SpecCpu are drawn from.
Opcodes == {OpNOP, OpINCB, OpLDBd8, OpHALT, OpRETI, OpDI, OpEI}

\* Instruction::from_byte restricted to the subset: the bytes it decodes.
Decodes(byte) == byte \in Opcodes \cup {OpJR}

(***************************************************************************)
(* APU: the four channels, the frame sequencer and the sample clock.       *)
(* The four channel structs are one record here: channel[n] is channel n   *)
(* and nr0..nr4 are its five registers NRn0..NRn4 (a register or field a   *)
(* channel does not have stays 0).  position is duty_position of channels  *)
(* 1 and 2 and position_counter of channel 3.  wave_ram is the wave RAM of *)
(* channel 3, kept beside the channels; the sample values are left out and *)
(* samples is the number of stereo frames pushed to sample_buffer.         *)
(***************************************************************************)
SampleClock == 4194304
DefaultSampleRate == 44100
LfsrReset == 32767

ChannelDefault(n) ==
    [enabled |-> FALSE, dac_enabled |-> FALSE,
     nr0 |-> 0, nr1 |-> 0, nr2 |-> 0, nr3 |-> 0, nr4 |-> 0,
     length_counter |-> 0, volume |-> 0, envelope_timer |-> 0,
     envelope_running |-> FALSE, frequency_timer |-> 0, position |-> 0,
     sweep_timer |-> 0, sweep_enabled |-> FALSE,
     sweep_shadow_frequency |-> 0, sweep_negate_used |-> FALSE,
     lfsr |-> IF n = 4 THEN LfsrReset ELSE 0, wave_just_read |-> FALSE]

ApuDefault ==
    [channel |-> [n \in 1..4 |-> ChannelDefault(n)],
     nr50 |-> 0, nr51 |-> 0, power |-> FALSE,
     frame_step |-> 0, sample_rate |-> DefaultSampleRate, sample_timer |-> 0,
     samples |-> 0, wave_ram |-> EmptyMem]

\* Field accessors of the channel structs.
SweepPeriod(ch) == (ch.nr0 \div 16) % 8
SweepNegate(ch) == Bit(ch.nr0, 3) = 1
SweepShift(ch) == ch.nr0 % 8
EnvelopePeriod(ch) == ch.nr2 % 8
LengthEnable(ch) == Bit(ch.nr4, 6) = 1
Frequency(ch) == ch.nr3 + 256 * (ch.nr4 % 8)

\* The full length of a channel's length counter.
LengthMax(n) == IF n = 3 THEN 256 ELSE 64

DIVISOR_TABLE == <<8, 16, 32, 48, 64, 80, 96, 112>>

\* period() of channel n.
Period(n, ch) ==
    LET square == (2048 - Frequency(ch)) * (IF n = 3 THEN 2 ELSE 4)
    IN  IF n = 4
        THEN DIVISOR_TABLE[(ch.nr3 % 8) + 1] * (2 ^ (ch.nr3 \div 16))
        ELSE IF square > 1 THEN square ELSE 1

\* Channel1::calculate_sweep_frequency: the channel and the new frequency.
CalculateSweepFrequency(ch) ==
    Only({ [ch |-> [ch EXCEPT
                       !.sweep_negate_used =
                           IF SweepNegate(ch) THEN TRUE ELSE @,
                       !.enabled = IF new_freq > 2047 THEN FALSE ELSE @],
            new_freq |-> new_freq] :
           new_freq \in
               {IF SweepNegate(ch)
                THEN W16(ch.sweep_shadow_frequency
                         - (ch.sweep_shadow_frequency \div (2 ^ SweepShift(ch))))
                ELSE ch.sweep_shadow_frequency
                     + (ch.sweep_shadow_frequency \div (2 ^ SweepShift(ch)))} })

\* trigger() of channel n without its closing DAC check.
TriggerReload(n, ch, frame_step) ==
    Only({ IF n = 1 /\ SweepShift(ch) > 0
           THEN CalculateSweepFrequency(c).ch ELSE c :
           c \in
             {[ch EXCEPT
                 !.enabled = TRUE,
                 !.length_counter =
                     IF @ # 0 THEN @
                     ELSE IF LengthEnable(ch) /\ frame_step % 2 = 1
                          THEN LengthMax(n) - 1 ELSE LengthMax(n),
                 !.frequency_timer = Period(n, ch) + (IF n = 3 THEN 6 ELSE 0),
                 !.position = IF n = 3 THEN 0 ELSE @,
                 !.lfsr = IF n = 4 THEN LfsrReset ELSE @,
                 !.volume = IF n = 3 THEN @ ELSE ch.nr2 \div 16,
                 !.envelope_timer = IF n = 3 THEN @ ELSE EnvelopePeriod(ch),
                 !.envelope_running = IF n = 3 THEN @ ELSE TRUE,
                 !.sweep_shadow_frequency = IF n = 1 THEN Frequency(ch) ELSE @,
                 !.sweep_timer =
                     IF n # 1 THEN @
                     ELSE IF SweepPeriod(ch) > 0 THEN SweepPeriod(ch) ELSE 8,
                 !.sweep_negate_used = IF n = 1 THEN FALSE ELSE @,
                 !.sweep_enabled =
                     IF n = 1 THEN SweepPeriod(ch) > 0 \/ SweepShift(ch) > 0
                     ELSE @]} })

\* trigger() that leaves a channel whose DAC is off enabled.
TriggerKeepEnabled(n, ch, frame_step) == TriggerReload(n, ch, frame_step)

\* trigger() of channel n.
Trigger(n, ch, frame_step) ==
    Only({ IF ~c.dac_enabled THEN [c EXCEPT !.enabled = FALSE] ELSE c :
           c \in {TriggerReload(n, ch, frame_step)} })

\* write_nr14, write_nr24, write_nr34, write_nr44.
WriteNrx4(n, ch, val, frame_step) ==
    LET triggering == Bit(val, 7) = 1
        extra == /\ ~LengthEnable(ch)
                 /\ Bit(val, 6) = 1
                 /\ frame_step % 2 = 1
                 /\ ch.length_counter > 0
        c1 == [ch EXCEPT
                  !.nr4 = val,
                  !.length_counter = IF extra THEN @ - 1 ELSE @,
                  !.enabled = IF extra /\ ch.length_counter = 1 /\ ~triggering
                              THEN FALSE ELSE @]
    IN  IF triggering THEN Trigger(n, c1, frame_step) ELSE c1

\* The write_nrXY function of channel n's register reg (0..4).
ChannelWrite(n, ch, reg, val, frame_step) ==
    CASE reg = 0 /\ n = 1 ->
            [ch EXCEPT
                !.nr0 = val,
                !.enabled = IF /\ SweepNegate(ch)
                               /\ Bit(val, 3) = 0
                               /\ ch.sweep_negate_used
                            THEN FALSE ELSE @]
      [] reg = 0 /\ n = 3 ->
            [ch EXCEPT !.nr0 = val,
                       !.dac_enabled = Bit(val, 7) = 1,
                       !.enabled = IF Bit(val, 7) = 0 THEN FALSE ELSE @]
      [] reg = 1 ->
            [ch EXCEPT
                !.nr1 = val,
                !.length_counter =
                    LengthMax(n) - (IF n = 3 THEN val ELSE val % 64)]
      [] reg = 2 /\ n = 3 -> [ch EXCEPT !.nr2 = val]
      [] reg = 2 /\ n # 3 ->
            [ch EXCEPT !.nr2 = val,
                       !.dac_enabled = val \div 8 # 0,
                       !.enabled = IF val \div 8 = 0 THEN FALSE ELSE @]
      [] reg = 3 -> [ch EXCEPT !.nr3 = val]
      [] reg = 4 -> WriteNrx4(n, ch, val, frame_step)
      [] OTHER -> ch

\* write_length of channel n.
WriteLength(n, ch, val) ==
    [ch EXCEPT
        !.length_counter = LengthMax(n) - (IF n = 3 THEN val ELSE val % 64)]

\* power_off of a channel: every field but length_counter is zeroed.
ChannelPowerOff(ch) ==
    [ChannelDefault(1) EXCEPT !.length_counter = ch.length_counter]

\* Apu::power_off.
PowerOff(apu) ==
    [apu EXCEPT !.channel = [n \in 1..4 |-> ChannelPowerOff(@[n])],
                !.nr50 = 0, !.nr51 = 0]

ReadWaveRamOpen(ch, wave_ram, offset) == Rd(wave_ram, offset)

\* Channel3::read_wave_ram.
ReadWaveRam(ch, wave_ram, offset) ==
    IF ch.enabled
    THEN IF ch.wave_just_read THEN Rd(wave_ram, ch.position \div 2) ELSE 255
    ELSE Rd(wave_ram, offset)

\* Channel3::write_wave_ram: the wave RAM afterwards.
WriteWaveRam(ch, wave_ram, offset, val) ==
    IF ch.enabled
    THEN IF ch.wave_just_read THEN Wr(wave_ram, ch.position \div 2, val)
         ELSE wave_ram
    ELSE Wr(wave_ram, offset, val)

\* The wave RAM after the corruption of write_nr34: a trigger of the enabled
\* channel with frequency_timer 2 copies the byte, or the aligned group of
\* four bytes, at the next position over the start of wave RAM.
RetriggerWaveRam(ch, wave_ram) ==
    IF ~(ch.enabled /\ ch.frequency_timer = 2) THEN wave_ram
    ELSE Only({ IF offset < 4 THEN Wr(wave_ram, 0, Rd(wave_ram, offset))
                ELSE Wr(Wr(Wr(Wr(wave_ram,
                       0, Rd(wave_ram, (offset \div 4) * 4)),
                       1, Rd(wave_ram, ((offset \div 4) * 4) + 1)),
                       2, Rd(wave_ram, ((offset \div 4) * 4) + 2)),
                       3, Rd(wave_ram, ((offset \div 4) * 4) + 3)) :
                offset \in {((ch.position + 1) \div 2) % 16} })

\* Apu::read_register for wave RAM, 0xFF30..0xFF3F.
ReadRegister(apu, address) ==
    ReadWaveRam(apu.channel[3], apu.wave_ram, address - 65328)

\* Apu::write_register.
WriteRegister(apu, address, val) ==
    LET n == ((address - 65296) \div 5) + 1
        reg == (address - 65296) % 5
    IN  CASE address \in 65328..65343 ->
                [apu EXCEPT !.wave_ram = WriteWaveRam(apu.channel[3], @,
                                                      address - 65328, val)]
          [] address = 65318 ->
                IF apu.power /\ Bit(val, 7) = 0
                THEN PowerOff([apu EXCEPT !.power = FALSE])
                ELSE IF ~apu.power /\ Bit(val, 7) = 1
                THEN [apu EXCEPT !.power = TRUE, !.frame_step = 0]
                ELSE apu
          [] address \in 65296..65315 /\ ~apu.power ->
                IF address \in {65297, 65302, 65307, 65312}
                THEN [apu EXCEPT !.channel[n] = WriteLength(n, @, val)]
                ELSE apu
          [] address \in 65296..65315 /\ apu.power ->
                [apu EXCEPT
                    !.channel[n] = ChannelWrite(n, @, reg, val, apu.frame_step),
                    !.wave_ram = IF address = 65310 /\ Bit(val, 7) = 1
                                 THEN RetriggerWaveRam(apu.channel[3], @)
                                 ELSE @]
          [] address = 65316 /\ apu.power -> [apu EXCEPT !.nr50 = val]
          [] address = 65317 /\ apu.power -> [apu EXCEPT !.nr51 = val]
          [] OTHER -> apu

\* clock_length that leaves the channel enabled at 0.
ClockLengthKeepEnabled(ch) ==
    IF LengthEnable(ch) /\ ch.length_counter > 0
    THEN [ch EXCEPT !.length_counter = @ - 1]
    ELSE ch

\* clock_length of any channel.
ClockLength(ch) ==
    IF LengthEnable(ch) /\ ch.length_counter > 0
    THEN [ch EXCEPT !.length_counter = @ - 1,
                    !.enabled = IF ch.length_counter = 1 THEN FALSE ELSE @]
    ELSE ch

\* clock_envelope of channels 1, 2 and 4.
ClockEnvelope(ch) ==
    IF EnvelopePeriod(ch) = 0 THEN ch
    ELSE IF ch.envelope_timer > 1 THEN [ch EXCEPT !.envelope_timer = @ - 1]
    ELSE Only({ [ch EXCEPT
                    !.envelope_timer = EnvelopePeriod(ch),
                    !.volume = volume,
                    !.envelope_running =
                        IF @ /\ volume \in {0, 15} THEN FALSE ELSE @] :
                volume \in
                    {IF ~ch.envelope_running THEN ch.volume
                     ELSE IF Bit(ch.nr2, 3) = 1 /\ ch.volume < 15
                          THEN ch.volume + 1
                     ELSE IF Bit(ch.nr2, 3) = 0 /\ ch.volume > 0
                          THEN ch.volume - 1
                     ELSE ch.volume} })

\* The sweep update without the second overflow check.
SweepUpdateOneCheck(ch) ==
    IF ~(ch.sweep_enabled /\ SweepPeriod(ch) > 0) THEN ch
    ELSE Only({ IF r.new_freq <= 2047 /\ SweepShift(ch) > 0
                THEN [r.ch EXCEPT
                         !.sweep_shadow_frequency = r.new_freq,
                         !.nr3 = r.new_freq % 256,
                         !.nr4 = ((@ \div 8) * 8)
                                 + ((r.new_freq \div 256) % 8)]
                ELSE r.ch :
                r \in {CalculateSweepFrequency(ch)} })

\* Channel1::clock_sweep once the sweep timer has run out and been reloaded.
SweepUpdate(ch) ==
    IF ~(ch.sweep_enabled /\ SweepPeriod(ch) > 0) THEN ch
    ELSE Only({ IF r.new_freq <= 2047 /\ SweepShift(ch) > 0
                THEN CalculateSweepFrequency(
                         [r.ch EXCEPT
                             !.sweep_shadow_frequency = r.new_freq,
                             !.nr3 = r.new_freq % 256,
                             !.nr4 = ((@ \div 8) * 8)
                                     + ((r.new_freq \div 256) % 8)]).ch
                ELSE r.ch :
                r \in {CalculateSweepFrequency(ch)} })

\* Channel1::clock_sweep.
ClockSweep(ch) ==
    IF ch.sweep_timer > 1 THEN [ch EXCEPT !.sweep_timer = @ - 1]
    ELSE SweepUpdate([ch EXCEPT
                         !.sweep_timer =
                             IF SweepPeriod(ch) > 0 THEN SweepPeriod(ch) ELSE 8])

ClockFrameSequencerOneSweep(apu) ==
    [apu EXCEPT
        !.channel =
            CASE apu.frame_step \in {0, 4, 6} ->
                    [n \in 1..4 |-> ClockLength(@[n])]
              [] apu.frame_step = 2 ->
                    [n \in 1..4 |->
                        IF n = 1 THEN ClockSweep(ClockLength(@[n]))
                        ELSE ClockLength(@[n])]
              [] apu.frame_step = 7 ->
                    [n \in 1..4 |->
                        IF n = 3 THEN @[n] ELSE ClockEnvelope(@[n])]
              [] OTHER -> @,
        !.frame_step = (@ + 1) % 8]

\* Apu::clock_frame_sequencer.
ClockFrameSequencer(apu) ==
    [apu EXCEPT
        !.channel =
            CASE apu.frame_step \in {0, 4} ->
                    [n \in 1..4 |-> ClockLength(@[n])]
              [] apu.frame_step \in {2, 6} ->
                    [n \in 1..4 |->
                        IF n = 1 THEN ClockSweep(ClockLength(@[n]))
                        ELSE ClockLength(@[n])]
              [] apu.frame_step = 7 ->
                    [n \in 1..4 |->
                        IF n = 3 THEN @[n] ELSE ClockEnvelope(@[n])]
              [] OTHER -> @,
        !.frame_step = (@ + 1) % 8]

\* The LFSR clock of Channel4::tick.
LfsrClock(ch) ==
    Only({ IF Bit(ch.nr3, 3) = 1
           THEN (l[2] - (64 * Bit(l[2], 6))) + (64 * l[1]) ELSE l[2] :
           l \in { <<x, (ch.lfsr \div 2) + (16384 * x)>> :
                      x \in {(Bit(ch.lfsr, 0) + Bit(ch.lfsr, 1)) % 2} } })

\* tick() of channel n.
ChannelTick(n, ch) ==
    IF ch.frequency_timer > 1
    THEN [ch EXCEPT !.frequency_timer = @ - 1, !.wave_just_read = FALSE]
    ELSE [ch EXCEPT
             !.frequency_timer = Period(n, ch),
             !.wave_just_read = (n = 3),
             !.position = IF n = 4 THEN @
                          ELSE (@ + 1) % (IF n = 3 THEN 32 ELSE 8),
             !.lfsr = IF n = 4 THEN LfsrClock(ch) ELSE @]

\* Apu::tick_one_t_cycle.
TickOneTCycle(apu) ==
    [apu EXCEPT
        !.channel = [n \in 1..4 |-> ChannelTick(n, @[n])],
        !.sample_timer =
            IF apu.sample_rate = 0 THEN @
            ELSE IF @ + apu.sample_rate >= SampleClock
                 THEN (@ + apu.sample_rate) - SampleClock
                 ELSE @ + apu.sample_rate,
        !.samples =
            IF /\ apu.sample_rate > 0
               /\ apu.sample_timer + apu.sample_rate >= SampleClock
            THEN @ + 1 ELSE @]

\* T-cycles the APU has been ticked, in units of 1/sample_rate of a sample:
\* every tick_one_t_cycle adds sample_rate to the sample clock.
ApuCycles(apu) == apu.samples * SampleClock + apu.sample_timer

(***************************************************************************)
(* Timer.                                                                  *)
(***************************************************************************)
TimerDefault ==
    [tima |-> 0, tma |-> 0, tac |-> 0, internal_counter |-> 0,
     interrupt |-> FALSE]

TimerRead(t, address) ==
    CASE address = 65284 -> t.internal_counter \div 256
      [] address = 65285 -> t.tima
      [] address = 65286 -> t.tma
      [] address = 65287 -> t.tac
      [] OTHER -> 0

TimerWriteNoClock(st, address, byte) ==
    CASE address = 65284 -> [st EXCEPT !.timer.internal_counter = 0]
      [] address = 65285 -> [st EXCEPT !.timer.tima = byte]
      [] address = 65286 -> [st EXCEPT !.timer.tma = byte]
      [] address = 65287 -> [st EXCEPT !.timer.tac = byte]
      [] OTHER -> st

\* Timer::write; st is [timer, apu].
TimerWrite(st, address, byte) ==
    CASE address = 65284 ->
            [timer |-> [st.timer EXCEPT !.internal_counter = 0],
             apu |-> IF Bit(st.timer.internal_counter, 12) = 1
                     THEN ClockFrameSequencer(st.apu) ELSE st.apu]
      [] address = 65285 -> [st EXCEPT !.timer.tima = byte]
      [] address = 65286 -> [st EXCEPT !.timer.tma = byte]
      [] address = 65287 -> [st EXCEPT !.timer.tac = byte]
      [] OTHER -> st

TacBit(tac) ==
    CASE tac % 4 = 0 -> 9
      [] tac % 4 = 1 -> 3
      [] tac % 4 = 2 -> 5
      [] OTHER -> 7

\* Timer::tick with the increment on the rising edge of the selected bit.
TimerCycleRisingEdge(st) ==
    LET old == st.timer.internal_counter
        new == (old + 1) % 65536
        apu1 == TickOneTCycle(IF Bit(old, 12) = 1 /\ Bit(new, 12) = 0
                              THEN ClockFrameSequencer(st.apu) ELSE st.apu)
        edge == /\ Bit(st.timer.tac, 2) = 1
                /\ Bit(old, TacBit(st.timer.tac)) = 0
                /\ Bit(new, TacBit(st.timer.tac)) = 1
        t1 == [st.timer EXCEPT !.internal_counter = new]
        t2 == IF ~edge THEN t1
              ELSE IF t1.tima = 255
                   THEN [t1 EXCEPT !.tima = t1.tma, !.interrupt = TRUE]
                   ELSE [t1 EXCEPT !.tima = t1.tima + 1]
    IN  [timer |-> t2, apu |-> apu1]

\* One iteration of the loop of Timer::tick.
TimerCycle(st) ==
    LET old == st.timer.internal_counter
        new == (old + 1) % 65536
        apu1 == TickOneTCycle(IF Bit(old, 12) = 1 /\ Bit(new, 12) = 0
                              THEN ClockFrameSequencer(st.apu) ELSE st.apu)
        edge == /\ Bit(st.timer.tac, 2) = 1
                /\ Bit(old, TacBit(st.timer.tac)) = 1
                /\ Bit(new, TacBit(st.timer.tac)) = 0
        t1 == [st.timer EXCEPT !.internal_counter = new]
        t2 == IF ~edge THEN t1
              ELSE IF t1.tima = 255
                   THEN [t1 EXCEPT !.tima = t1.tma, !.interrupt = TRUE]
                   ELSE [t1 EXCEPT !.tima = t1.tima + 1]
    IN  [timer |-> t2, apu |-> apu1]

RECURSIVE TimerLoop(_, _)
TimerLoop(st, n) == IF n = 0 THEN st ELSE TimerLoop(TimerCycle(st), n - 1)

\* Timer::tick(t_cycles, apu).
TimerTick(timer, apu, n) ==
    TimerLoop([timer |-> [timer EXCEPT !.interrupt = FALSE], apu |-> apu], n)

(***************************************************************************)
(* Joypad.                                                                 *)
(***************************************************************************)
JoypadDefault ==
    [select |-> 48, buttons |-> 15, dpad |-> 15, interrupt |-> FALSE]

JoypadRead(j) ==
    LET r0 == BitOr(j.select, 192)
        r1 == IF Bit(j.select, 5) = 0
              THEN (r0 - (r0 % 16)) + (j.buttons % 16) ELSE r0
        r2 == IF Bit(j.select, 4) = 0
              THEN (r1 - (r1 % 16)) + (j.dpad % 16) ELSE r1
    IN  r2

JoypadWrite(j, byte) == [j EXCEPT !.select = BitAnd(byte, 48)]

\* key 0..3: Right, Left, Up, Down; key 4..7: A, B, Select, Start.
KeyDown(j, key) ==
    IF key < 4
    THEN [j EXCEPT !.dpad = @ - Bit(@, key) * (2 ^ key), !.interrupt = TRUE]
    ELSE [j EXCEPT !.buttons = @ - Bit(@, key - 4) * (2 ^ (key - 4)),
                   !.interrupt = TRUE]

KeyUp(j, key) ==
    IF key < 4
    THEN [j EXCEPT !.dpad = BitOr(@, 2 ^ key)]
    ELSE [j EXCEPT !.buttons = BitOr(@, 2 ^ (key - 4))]

(***************************************************************************)
(* PPU.  The model keeps the timing state of the pixel pipeline: the mode  *)
(* state machine, the scanline clock, both FIFOs' head and length, the     *)
(* fetcher, the scanline sprite list and the window flags.                 *)
(***************************************************************************)
\* Mutation of OamScanCycles: the OAM scan ends four T-cycles early.
OamScanCyclesShort == 80 - 4

OamScanCycles == 80
LineCycles == 456
\* Mutation of VBlankLine: VBlank is entered one line late.
VBlankLineLate == 144 + 1

VBlankLine == 144
\* Mutation of LastLine: the frame is one line short.
LastLineShort == 153 - 1

LastLine == 153
ScreenWidth == 160
MaxLineSprites == 10
OamEntries == 40

FifoNew == [head |-> 0, len |-> 0]

FetcherNew ==
    [state |-> "ReadTileId", tick |-> 0, tile_x |-> 0,
     fetching_window |-> FALSE]

PpuDefault ==
    [mode |-> "OamScan", mode_clock |-> 0, ly |-> 0, lyc |-> 0,
     lcdc |-> 145, stat |-> 0, scy |-> 0, scx |-> 0, bgp |-> 252,
     wy |-> 0, wx |-> 0, obp0 |-> 255, obp1 |-> 255,
     vblank_interrupt |-> FALSE, stat_interrupt |-> FALSE,
     bg_fifo |-> FifoNew, obj_fifo |-> FifoNew, fetcher |-> FetcherNew,
     sprites |-> <<>>, pixel_x |-> 0, scx_discard |-> 0,
     window_line_counter |-> 0, window_active |-> FALSE,
     wy_triggered |-> FALSE, sprite_fetching |-> FALSE,
     sprite_fetch_step |-> 0, sprite_fetch_idx |-> 0]

ModeBits(mode) ==
    CASE mode = "HBlank" -> 0
      [] mode = "VBlank" -> 1
      [] mode = "OamScan" -> 2
      [] OTHER -> 3

ReadStat(p) ==
    (p.stat - (p.stat % 8)) + (IF p.ly = p.lyc THEN 4 ELSE 0)
    + ModeBits(p.mode)

WriteStat(p, byte) ==
    [p EXCEPT !.stat = (byte - (byte % 8)) + (p.stat % 8)]

CheckLyc(p) ==
    IF p.ly = p.lyc /\ Bit(p.stat, 6) = 1
    THEN [p EXCEPT !.stat_interrupt = TRUE] ELSE p

\* Mutation of CheckStatInterrupt: the request is raised whatever the
\* enable bits are.
CheckStatInterruptAlways(p, mode) ==
    IF mode \in 0..2 THEN [p EXCEPT !.stat_interrupt = TRUE] ELSE p

\* mode 0, 1, 2 test STAT bit 3, 4, 5.
CheckStatInterrupt(p, mode) ==
    IF mode \in 0..2 /\ Bit(p.stat, mode + 3) = 1
    THEN [p EXCEPT !.stat_interrupt = TRUE] ELSE p

SpriteHeight(p) == IF Bit(p.lcdc, 2) = 1 THEN 16 ELSE 8

\* The test of do_full_oam_scan on the OAM entry whose first byte is sy.
SpriteOnLine(p, sy) ==
    LET screen_y == W8(sy - 16)
    IN  p.ly >= screen_y /\ p.ly < W8(screen_y + SpriteHeight(p))

RECURSIVE OamScanFrom(_, _, _, _)
OamScanFrom(p, oam, i, acc) ==
    IF i >= OamEntries \/ Len(acc) >= MaxLineSprites THEN acc
    ELSE IF SpriteOnLine(p, Rd(oam, 4 * i))
         THEN OamScanFrom(p, oam, i + 1,
                  Append(acc, [oam_index |-> i, x |-> Rd(oam, 4 * i + 1),
                               y |-> Rd(oam, 4 * i), tile |-> Rd(oam, 4 * i + 2),
                               flags |-> Rd(oam, 4 * i + 3)]))
         ELSE OamScanFrom(p, oam, i + 1, acc)

DoFullOamScan(p, oam) == [p EXCEPT !.sprites = OamScanFrom(p, oam, 0, <<>>)]

StartDrawing(p) ==
    [p EXCEPT !.mode = "Drawing", !.bg_fifo = FifoNew, !.obj_fifo = FifoNew,
              !.pixel_x = 0, !.scx_discard = p.scx % 8,
              !.fetcher = [FetcherNew EXCEPT !.tile_x = p.scx \div 8],
              !.window_active = FALSE, !.sprite_fetching = FALSE,
              !.wy_triggered = IF p.ly = p.wy THEN TRUE ELSE @]

\* PixelFifo::pop; len is a u8, so a pop of an empty FIFO would wrap it.
FifoPop(f) == [head |-> (f.head + 1) % 16, len |-> W8(f.len - 1)]

TickFetcher(p) ==
    LET f == p.fetcher
    IN  IF f.tick + 1 < 2 THEN [p EXCEPT !.fetcher.tick = f.tick + 1]
        ELSE CASE f.state = "ReadTileId" ->
                    [p EXCEPT !.fetcher.tick = 0,
                              !.fetcher.state = "ReadTileDataLow"]
               [] f.state = "ReadTileDataLow" ->
                    [p EXCEPT !.fetcher.tick = 0,
                              !.fetcher.state = "ReadTileDataHigh"]
               [] f.state = "ReadTileDataHigh" ->
                    [p EXCEPT !.fetcher.tick = 0, !.fetcher.state = "Push"]
               [] OTHER ->
                    IF p.bg_fifo.len > 0 THEN [p EXCEPT !.fetcher.tick = 0]
                    ELSE [p EXCEPT !.fetcher.tick = 0,
                                   !.bg_fifo.len = @ + 8,
                                   !.fetcher.tile_x = W8(@ + 1),
                                   !.fetcher.state = "ReadTileId"]

ActivateWindow(p) ==
    [p EXCEPT !.window_active = TRUE, !.bg_fifo = FifoNew,
              !.fetcher = [FetcherNew EXCEPT !.fetching_window = TRUE]]

TryPushPixel(p) ==
    IF p.bg_fifo.len = 0 THEN p
    ELSE LET p1 == [p EXCEPT !.bg_fifo = FifoPop(@)]
         IN  IF p1.scx_discard > 0
             THEN [p1 EXCEPT !.scx_discard = @ - 1]
             ELSE IF p1.pixel_x >= ScreenWidth THEN p1
             ELSE LET p2 == [p1 EXCEPT
                                !.obj_fifo = IF @.len > 0 THEN FifoPop(@) ELSE @,
                                !.pixel_x = @ + 1]
                      p3 == IF /\ ~p2.window_active /\ p2.wy_triggered
                               /\ Bit(p2.lcdc, 5) = 1
                               /\ p2.wx <= 166 /\ p2.pixel_x >= W8(p2.wx - 7)
                            THEN ActivateWindow(p2) ELSE p2
                  IN  IF p3.pixel_x >= ScreenWidth
                      THEN CheckStatInterrupt([p3 EXCEPT !.mode = "HBlank"], 0)
                      ELSE p3

TriggerX(x) == IF x >= 8 THEN x - 8 ELSE 0

\* Indices (from 1) of the scanline sprites that trigger at pixel_x.
SpriteTriggers(p) ==
    {i \in 1..Len(p.sprites) :
        p.sprites[i].x # 0 /\ TriggerX(p.sprites[i].x) = p.pixel_x}

Min(S) == CHOOSE x \in S : \A y \in S : x <= y

\* check_sprite_trigger: starts the fetch of the first triggering sprite.
CheckSpriteTrigger(p) ==
    IF SpriteTriggers(p) = {} THEN p
    ELSE [p EXCEPT !.sprite_fetching = TRUE, !.sprite_fetch_step = 0,
                   !.sprite_fetch_idx = Min(SpriteTriggers(p)) - 1]

\* Mutation of MixSpritePixels: the sprite's pixels are appended to the OBJ
\* FIFO instead of overlaid on its first entries.
MixSpritePixelsAppend(p) ==
    LET x == p.sprites[p.sprite_fetch_idx + 1].x
        pixels_to_write == IF x < 8 THEN x ELSE 8
    IN  [p EXCEPT !.obj_fifo.len = W8(@ + pixels_to_write)]

MixSpritePixels(p) ==
    LET x == p.sprites[p.sprite_fetch_idx + 1].x
        pixels_to_write == IF x < 8 THEN x ELSE 8
    IN  [p EXCEPT !.obj_fifo.len =
                      IF @ < pixels_to_write THEN pixels_to_write ELSE @]

TickSpriteFetch(p) ==
    LET p1 == [p EXCEPT !.sprite_fetch_step = @ + 1]
    IN  IF p1.sprite_fetch_step < 6 THEN p1
        ELSE LET p2 == [MixSpritePixels(p1) EXCEPT
                           !.sprite_fetching = FALSE,
                           !.sprites[p1.sprite_fetch_idx + 1].x = 0]
             IN  IF Bit(p2.lcdc, 1) = 1 THEN CheckSpriteTrigger(p2) ELSE p2

TickDrawing(p) ==
    IF p.sprite_fetching THEN TickSpriteFetch(p)
    ELSE LET p1 == TickFetcher(p)
             p2 == IF Bit(p1.lcdc, 1) = 1 /\ p1.bg_fifo.len > 0
                   THEN CheckSpriteTrigger(p1) ELSE p1
         IN  IF p2.sprite_fetching THEN TickSpriteFetch(p2)
             ELSE TryPushPixel(p1)

\* One iteration of the while loop of Ppu::tick; st is [p, remaining, vb],
\* vb the value of remaining at which the VBlank request was raised (-1:
\* none in this call).
PpuIter(st, oam) ==
    LET p == st.p
        limit == IF p.mode = "OamScan" THEN OamScanCycles ELSE LineCycles
        until_end == IF limit > p.mode_clock THEN limit - p.mode_clock ELSE 0
        consume == IF st.remaining < until_end THEN st.remaining ELSE until_end
        pc == [p EXCEPT !.mode_clock = @ + consume]
        rem == st.remaining - consume
    IN  CASE p.mode = "Drawing" ->
                [st EXCEPT !.p = TickDrawing([p EXCEPT !.mode_clock = @ + 1]),
                           !.remaining = @ - 1]
          [] p.mode = "OamScan" ->
                [st EXCEPT !.remaining = rem,
                           !.p = IF pc.mode_clock >= OamScanCycles
                                 THEN StartDrawing(DoFullOamScan(pc, oam))
                                 ELSE pc]
          [] p.mode = "HBlank" ->
                IF pc.mode_clock < LineCycles
                THEN [st EXCEPT !.remaining = rem, !.p = pc]
                ELSE LET q == [pc EXCEPT
                                  !.mode_clock = @ - LineCycles,
                                  !.ly = W8(@ + 1),
                                  !.window_line_counter =
                                      IF pc.window_active THEN W8(@ + 1) ELSE @]
                     IN  IF q.ly = VBlankLine
                         THEN [st EXCEPT
                                  !.remaining = rem, !.vb = rem,
                                  !.p = CheckLyc(CheckStatInterrupt(
                                            [q EXCEPT !.mode = "VBlank",
                                                      !.vblank_interrupt = TRUE],
                                            1))]
                         ELSE [st EXCEPT
                                  !.remaining = rem,
                                  !.p = CheckLyc(CheckStatInterrupt(
                                            [q EXCEPT !.mode = "OamScan"], 2))]
          [] OTHER ->
                IF pc.mode_clock < LineCycles
                THEN [st EXCEPT !.remaining = rem, !.p = pc]
                ELSE LET q == [pc EXCEPT !.mode_clock = @ - LineCycles,
                                         !.ly = W8(@ + 1)]
                     IN  [st EXCEPT
                            !.remaining = rem,
                            !.p = IF q.ly > LastLine
                                  THEN CheckLyc(CheckStatInterrupt(
                                           [q EXCEPT !.ly = 0,
                                                     !.mode = "OamScan",
                                                     !.window_line_counter = 0,
                                                     !.wy_triggered = FALSE],
                                           2))
                                  ELSE CheckLyc(q)]

RECURSIVE PpuLoop(_, _)
PpuLoop(st, oam) ==
    IF st.remaining = 0 THEN st ELSE PpuLoop(PpuIter(st, oam), oam)

\* Ppu::tick(t_cycles, vram, oam), with the T-cycle of the VBlank request.
PpuTickObs(p, t_cycles, oam) ==
    LET p0 == [p EXCEPT !.vblank_interrupt = FALSE, !.stat_interrupt = FALSE]
    IN  IF Bit(p.lcdc, 7) = 0
        THEN [p |-> p0, remaining |-> 0, vb |-> -1]
        ELSE PpuLoop([p |-> p0, remaining |-> t_cycles, vb |-> -1], oam)

PpuTick(p, t_cycles, oam) == PpuTickObs(p, t_cycles, oam).p

(***************************************************************************)
(* Memory bus.                                                             *)
(***************************************************************************)
RomSize == 32768

\* Cartridge::default with a ROM image: no bank controller, no RAM.
CartridgeOf(rom) == [rom |-> rom, ram_len |-> 0, mbc |-> "NoMbc"]

BankSize == 16384
RamBankSize == 8192

\* A cartridge with an MBC1 controller as from_file builds it: rom is the
\* image of rom_len bytes, ram holds ram_len zero bytes.
Mbc1CartridgeOf(rom, rom_len, ram_len) ==
    [rom |-> rom, rom_len |-> rom_len, ram |-> EmptyMem, ram_len |-> ram_len,
     mbc |-> "Mbc1", rom_bank |-> 1, ram_bank |-> 0, ram_enabled |-> FALSE,
     banking_mode |-> FALSE]

\* Cartridge::num_rom_banks.
NumRomBanks(cart) ==
    IF cart.rom_len \div BankSize > 2 THEN cart.rom_len \div BankSize ELSE 2

\* The bank number read_mbc1 forms for 0x4000-0x7FFF before its reduction.
Mbc1Forced(cart) ==
    LET bank == BitOr(cart.ram_bank * 32, cart.rom_bank)
    IN  IF bank % 32 = 0 THEN BitOr(bank, 1) ELSE bank

\* The bank of a read in 0x4000-0x7FFF were bank 0 re-forced to 1 only
\* after the reduction.
Mbc1BankForcedLast(cart) ==
    LET bank == BitOr(cart.ram_bank * 32, cart.rom_bank) % NumRomBanks(cart)
    IN  IF bank % 32 = 0 THEN BitOr(bank, 1) ELSE bank

\* The bank read_mbc1 serves a read in 0x4000-0x7FFF from.
Mbc1Bank(cart) == Mbc1Forced(cart) % NumRomBanks(cart)

\* The external RAM offset of an address in 0xA000-0xBFFF.
Mbc1RamOffset(cart, address) ==
    ((IF cart.banking_mode THEN cart.ram_bank ELSE 0) * RamBankSize)
    + (address - 40960)

\* rom[addr], or 0xFF beyond the image.
RomByte(cart, addr) == IF addr < cart.rom_len THEN Rd(cart.rom, addr) ELSE 255

\* Cartridge::read_mbc1.
ReadMbc1(cart, address) ==
    CASE address < BankSize ->
            RomByte(cart,
                    ((IF cart.banking_mode
                      THEN (cart.ram_bank * 32) % NumRomBanks(cart) ELSE 0)
                     * BankSize) + address)
      [] address \in BankSize..32767 ->
            RomByte(cart, (Mbc1Bank(cart) * BankSize) + (address - BankSize))
      [] address \in 40960..49151 ->
            IF /\ cart.ram_enabled
               /\ cart.ram_len # 0
               /\ Mbc1RamOffset(cart, address) < cart.ram_len
            THEN Rd(cart.ram, Mbc1RamOffset(cart, address)) ELSE 255
      [] OTHER -> 255

\* The 0x2000-0x3FFF arm of write_byte without the forcing of bank 0 to 1.
RomBankUnforced(value) == value % 32

\* The 0x2000-0x3FFF arm of write_byte for Mbc1: the rom_bank stored.
RomBankOf(value) == IF value % 32 = 0 THEN 1 ELSE value % 32

\* Cartridge::write_byte for Mbc::Mbc1.
WriteMbc1(cart, address, value) ==
    CASE address < 8192 -> [cart EXCEPT !.ram_enabled = value % 16 = 10]
      [] address \in 8192..16383 -> [cart EXCEPT !.rom_bank = RomBankOf(value)]
      [] address \in 16384..24575 -> [cart EXCEPT !.ram_bank = value % 4]
      [] address \in 24576..32767 ->
            [cart EXCEPT !.banking_mode = value % 2 # 0]
      [] address \in 40960..49151 ->
            IF /\ cart.ram_enabled
               /\ cart.ram_len # 0
               /\ Mbc1RamOffset(cart, address) < cart.ram_len
            THEN [cart EXCEPT
                     !.ram = Wr(@, Mbc1RamOffset(cart, address), value)]
            ELSE cart
      [] OTHER -> cart

\* Cartridge::read_byte for Mbc::NoMbc and Mbc::Mbc1.
CartridgeRead(cart, address) ==
    IF cart.mbc = "Mbc1" THEN ReadMbc1(cart, address)
    ELSE IF address < RomSize THEN Rd(cart.rom, address) ELSE 255

\* Cartridge::write_byte for Mbc::NoMbc (writes ignored) and Mbc::Mbc1.
CartridgeWrite(cart, address, value) ==
    IF cart.mbc = "Mbc1" THEN WriteMbc1(cart, address, value) ELSE cart

BusNew(cartridge) ==
    [cartridge |-> cartridge, vram |-> EmptyMem, wram |-> EmptyMem,
     oam |-> EmptyMem, io |-> EmptyMem, hram |-> EmptyMem,
     ie_register |-> 0, if_register |-> 0, timer |-> TimerDefault,
     apu |-> ApuDefault, ppu |-> PpuDefault, joypad |-> JoypadDefault,
     cycles_ticked |-> 0]

TickMCycleHalf(bus) ==
    Only({ [bus EXCEPT
               !.timer = [r.timer EXCEPT !.interrupt = FALSE],
               !.apu = r.apu,
               !.if_register = IF r.timer.interrupt THEN BitOr(@, 4) ELSE @,
               !.cycles_ticked = (@ + 4) % 256] :
           r \in {TimerTick(bus.timer, bus.apu, 2)} })

\* MemoryBus::tick_m_cycle.
TickMCycle(bus) ==
    Only({ [bus EXCEPT
               !.timer = [r.timer EXCEPT !.interrupt = FALSE],
               !.apu = r.apu,
               !.if_register = IF r.timer.interrupt THEN BitOr(@, 4) ELSE @,
               !.cycles_ticked = (@ + 4) % 256] :
           r \in {TimerTick(bus.timer, bus.apu, 4)} })

ReadIo(bus, address) ==
    CASE address = 65280 -> JoypadRead(bus.joypad)
      [] address \in 65284..65287 -> TimerRead(bus.timer, address)
      [] address = 65295 -> BitOr(bus.if_register, 224)
      [] address = 65344 -> bus.ppu.lcdc
      [] address = 65345 -> ReadStat(bus.ppu)
      [] address = 65346 -> bus.ppu.scy
      [] address = 65347 -> bus.ppu.scx
      [] address = 65348 -> bus.ppu.ly
      [] address = 65349 -> bus.ppu.lyc
      [] address = 65350 -> 0
      [] address = 65351 -> bus.ppu.bgp
      [] address = 65352 -> bus.ppu.obp0
      [] address = 65353 -> bus.ppu.obp1
      [] address = 65354 -> bus.ppu.wy
      [] address = 65355 -> bus.ppu.wx
      [] OTHER -> Rd(bus.io, address - 65280)

ReadByteNoTick(bus, address) ==
    CASE address < 32768 \/ address \in 40960..49151 ->
            CartridgeRead(bus.cartridge, address)
      [] address \in 32768..40959 -> Rd(bus.vram, address - 32768)
      [] address \in 49152..57343 -> Rd(bus.wram, address - 49152)
      [] address \in 57344..65023 -> Rd(bus.wram, address - 57344)
      [] address \in 65024..65183 -> Rd(bus.oam, address - 65024)
      [] address \in 65184..65279 -> 255
      [] address \in 65280..65407 -> ReadIo(bus, address)
      [] address \in 65408..65534 -> Rd(bus.hram, address - 65408)
      [] OTHER -> bus.ie_register

\* MemoryBus::read_byte: the value, and the bus after its M-cycle tick.
ReadByte(bus, address) ==
    [value |-> ReadByteNoTick(bus, address), bus |-> TickMCycle(bus)]

OamDma(bus, byte) ==
    LET img == [i \in 0..159 |-> ReadByteNoTick(bus, byte * 256 + i)]
    IN  [bus EXCEPT !.oam = [i \in {j \in 0..159 : img[j] # 0} |-> img[i]]]

SerialControlStored(bus, byte) == [bus EXCEPT !.io = Wr(@, 2, byte)]

\* The 0xFF02 arm of write_io: SC is stored and a transfer requested with
\* the internal clock completes at once.
SerialControl(bus, byte) ==
    IF BitAnd(byte, 129) = 129
    THEN [bus EXCEPT !.io = Wr(Wr(@, 2, byte % 128), 1, 255),
                     !.if_register = BitOr(@, 8)]
    ELSE [bus EXCEPT !.io = Wr(@, 2, byte)]

WriteIo(bus, address, byte) ==
    CASE address = 65280 -> [bus EXCEPT !.joypad = JoypadWrite(@, byte)]
      [] address = 65282 -> SerialControl(bus, byte)
      [] address \in 65284..65287 ->
            Only({ [bus EXCEPT !.timer = r.timer, !.apu = r.apu] :
                   r \in {TimerWrite([timer |-> bus.timer, apu |-> bus.apu],
                                     address, byte)} })
      [] address = 65295 -> [bus EXCEPT !.if_register = byte]
      [] address = 65344 -> [bus EXCEPT !.ppu.lcdc = byte]
      [] address = 65345 -> [bus EXCEPT !.ppu = WriteStat(@, byte)]
      [] address = 65346 -> [bus EXCEPT !.ppu.scy = byte]
      [] address = 65347 -> [bus EXCEPT !.ppu.scx = byte]
      [] address = 65348 -> bus
      [] address = 65349 -> [bus EXCEPT !.ppu.lyc = byte]
      [] address = 65350 -> OamDma(bus, byte)
      [] address = 65351 -> [bus EXCEPT !.ppu.bgp = byte]
      [] address = 65352 -> [bus EXCEPT !.ppu.obp0 = byte]
      [] address = 65353 -> [bus EXCEPT !.ppu.obp1 = byte]
      [] address = 65354 -> [bus EXCEPT !.ppu.wy = byte]
      [] address = 65355 -> [bus EXCEPT !.ppu.wx = byte]
      [] OTHER -> [bus EXCEPT !.io = Wr(@, address - 65280, byte)]

\* MemoryBus::write_byte.
WriteByte(bus, address, byte) ==
    TickMCycle(
        CASE address < 32768 \/ address \in 40960..49151 ->
                [bus EXCEPT !.cartridge = CartridgeWrite(@, address, byte)]
          [] address \in 32768..40959 ->
                [bus EXCEPT !.vram = Wr(@, address - 32768, byte)]
          [] address \in 49152..57343 ->
                [bus EXCEPT !.wram = Wr(@, address - 49152, byte)]
          [] address \in 57344..65023 ->
                [bus EXCEPT !.wram = Wr(@, address - 57344, byte)]
          [] address \in 65024..65183 ->
                [bus EXCEPT !.oam = Wr(@, address - 65024, byte)]
          [] address \in 65184..65279 -> bus
          [] address \in 65280..65407 -> WriteIo(bus, address, byte)
          [] address \in 65408..65534 ->
                [bus EXCEPT !.hram = Wr(@, address - 65408, byte)]
          [] OTHER -> [bus EXCEPT !.ie_register = byte])

(***************************************************************************)
(* CPU.                                                                    *)
(***************************************************************************)
EntryPoint == 256
StackTop == 65534

\* CPU::new: the post-boot register file; f holds Z, N, H, C in bits 7..4.
CpuNew(cartridge) ==
    [registers |-> [a |-> 1, f |-> 176, b |-> 0, c |-> 19, d |-> 0,
                    e |-> 216, h |-> 1, l |-> 77],
     pc |-> EntryPoint, sp |-> StackTop, bus |-> BusNew(cartridge),
     ime |-> FALSE, halted |-> FALSE, ei_pending |-> FALSE,
     halt_bug |-> FALSE]

Pending(g) == BitAnd(BitAnd(g.bus.if_register, g.bus.ie_register), 31)

Max(S) == CHOOSE x \in S : \A y \in S : x >= y

\* Mutation of LowestBit: the scan runs from bit 4 down.
HighestBit(pending) == Max({bit \in 0..4 : Bit(pending, bit) = 1})

\* The first bit the loop of handle_interrupts finds set.
LowestBit(pending) == Min({bit \in 0..4 : Bit(pending, bit) = 1})

\* Mutation of Wake: only a CPU with IME set leaves HALT.
WakeNeedsIme(g, pending) ==
    IF pending # 0 /\ g.ime THEN [g EXCEPT !.halted = FALSE] ELSE g

\* handle_interrupts: a pending enabled interrupt ends HALT.
Wake(g, pending) ==
    IF pending # 0 THEN [g EXCEPT !.halted = FALSE] ELSE g

Push(g, value) ==
    LET sp1 == W16(g.sp - 1)
        sp2 == W16(sp1 - 1)
    IN  [g EXCEPT !.sp = sp2,
                  !.bus = WriteByte(WriteByte(@, sp1, value \div 256),
                                    sp2, value % 256)]

\* CPU::pop: the popped word and the CPU after the two reads.
Pop(g) ==
    LET lo == ReadByte(g.bus, g.sp)
        hi == ReadByte(lo.bus, W16(g.sp + 1))
    IN  [value |-> hi.value * 256 + lo.value,
         cpu |-> [g EXCEPT !.sp = W16(@ + 2), !.bus = hi.bus]]

\* handle_interrupts: the CPU afterwards, the cycles returned, the bit taken.
HandleInterrupts(g) ==
    LET pending == Pending(g)
        g1 == Wake(g, pending)
    IN  IF ~g.ime \/ pending = 0
        THEN [cpu |-> g1, cycles |-> 0, bit |-> -1]
        ELSE LET bit == LowestBit(pending)
                 g2 == [g1 EXCEPT !.ime = FALSE,
                                  !.bus.if_register = @ - (2 ^ bit)]
             IN  [cpu |-> [Push(g2, g2.pc) EXCEPT !.pc = 64 + 8 * bit],
                  cycles |-> 20, bit |-> bit]

\* CPU::inc on register B.
IncB(g) ==
    LET value == g.registers.b
        new_value == W8(value + 1)
        carry == Bit(g.registers.f, 4)
    IN  [g EXCEPT !.registers.b = new_value,
                  !.registers.f = (IF new_value = 0 THEN 128 ELSE 0)
                                  + (IF (value % 16) + 1 > 15 THEN 32 ELSE 0)
                                  + 16 * carry]

\* Mutation of HaltInstr: HALT always halts.
HaltInstrNoBug(g) == [g EXCEPT !.halted = TRUE]

\* The HALT arm of execute.
HaltInstr(g) ==
    IF ~g.ime /\ Pending(g) # 0
    THEN [g EXCEPT !.halt_bug = TRUE]
    ELSE [g EXCEPT !.halted = TRUE]

\* Mutation of EiInstr: EI enables interrupts at once.
EiInstrImmediate(g) == [g EXCEPT !.ime = TRUE]

\* The EI arm of execute.
EiInstr(g) == [g EXCEPT !.ei_pending = TRUE]

\* Mutation of RetiInstr: RETI enables interrupts one instruction later.
RetiInstrDelayed(g) == [g EXCEPT !.ei_pending = TRUE]

\* The RETI arm of execute before the return: IME is set.
RetiInstr(g) == [g EXCEPT !.ime = TRUE]

\* Mutation of DiInstr: DI only cancels a pending EI.
DiInstrCancelOnly(g) == [g EXCEPT !.ei_pending = FALSE]

\* The DI arm of execute.
DiInstr(g) == [g EXCEPT !.ime = FALSE, !.ei_pending = FALSE]

\* A byte read as i8.
Signed8(byte) == IF byte >= 128 THEN byte - 256 ELSE byte

\* CPU::execute on the decoded instruction: the CPU afterwards (pc is still
\* the instruction's address), the next pc and the cycles.
Execute(g, byte) ==
    CASE byte = OpNOP ->
            [cpu |-> g, next_pc |-> W16(g.pc + 1), cycles |-> 4]
      [] byte = OpINCB ->
            [cpu |-> IncB(g), next_pc |-> W16(g.pc + 1), cycles |-> 4]
      [] byte = OpLDBd8 ->
            LET r == ReadByte(g.bus, W16(g.pc + 1))
            IN  [cpu |-> [g EXCEPT !.bus = r.bus, !.registers.b = r.value],
                 next_pc |-> W16(g.pc + 2), cycles |-> 8]
      [] byte = OpHALT ->
            [cpu |-> HaltInstr(g),
             next_pc |-> W16(g.pc + 1), cycles |-> 4]
      [] byte = OpRETI ->
            LET r == Pop(RetiInstr(g))
            IN  [cpu |-> r.cpu, next_pc |-> r.value, cycles |-> 16]
      [] byte = OpDI ->
            [cpu |-> DiInstr(g),
             next_pc |-> W16(g.pc + 1), cycles |-> 4]
      [] byte = OpEI ->
            [cpu |-> EiInstr(g),
             next_pc |-> W16(g.pc + 1), cycles |-> 4]
      [] byte = OpJR ->
            LET r == ReadByte(g.bus, W16(g.pc + 1))
            IN  [cpu |-> [g EXCEPT !.bus = r.bus],
                 next_pc |-> W16(g.pc + 2 + Signed8(r.value)), cycles |-> 12]

\* Mutation of FetchPc: PC is not moved back under the HALT bug.
FetchPcNoRewind(pc, halt_bug_active) == pc

\* The PC an instruction fetched under the HALT bug executes with.
FetchPc(pc, halt_bug_active) ==
    IF halt_bug_active THEN W16(pc - 1) ELSE pc

\* The byte CPU::step would fetch as opcode if it reached the fetch.
NextOpcode(g) == ReadByteNoTick(g.bus, g.pc)

\* CPU::step: the CPU afterwards, the cycles returned, and what the step
\* did: serviced an interrupt (bit), idled halted, or executed opcode op
\* fetched at address at.
Step(g) ==
    Only({
        IF hi.cycles > 0
        THEN [cpu |-> hi.cpu, cycles |-> hi.cycles, kind |-> "interrupt",
              bit |-> hi.bit, op |-> -1, at |-> -1]
        ELSE IF hi.cpu.halted
        THEN [cpu |-> hi.cpu, cycles |-> 4, kind |-> "halted",
              bit |-> -1, op |-> -1, at |-> -1]
        ELSE LET halt_bug_active == hi.cpu.halt_bug
                 g1 == [hi.cpu EXCEPT !.halt_bug = FALSE]
                 g2 == IF hi.cpu.ei_pending
                       THEN [g1 EXCEPT !.ei_pending = FALSE, !.ime = TRUE]
                       ELSE g1
             IN  Only({
                     Only({[cpu |-> [ex.cpu EXCEPT !.pc = ex.next_pc],
                            cycles |-> ex.cycles, kind |-> "exec",
                            bit |-> -1, op |-> fetch.value, at |-> g2.pc] :
                           ex \in {Execute(
                               [g2 EXCEPT !.bus = fetch.bus,
                                          !.pc = FetchPc(@, halt_bug_active)],
                               fetch.value)}}) :
                     fetch \in {ReadByte(g2.bus, g2.pc)}}) :
        hi \in {HandleInterrupts(g)}})

(***************************************************************************)
(* GameBoy::run_step, the body of the loop of run_frame.                   *)
(***************************************************************************)
LeftoverTickWhole(bus, cycles) ==
    Only({ [bus EXCEPT
               !.timer = [r.timer EXCEPT !.interrupt = FALSE],
               !.apu = r.apu,
               !.if_register = IF r.timer.interrupt THEN BitOr(@, 4) ELSE @] :
           r \in {TimerTick(bus.timer, bus.apu, cycles)} })

\* The leftover timer tick of run_step.
LeftoverTick(bus, cycles) ==
    LET remaining == IF cycles > bus.cycles_ticked
                     THEN cycles - bus.cycles_ticked ELSE 0
        r == TimerTick(bus.timer, bus.apu, remaining)
    IN  IF remaining = 0 THEN bus
        ELSE [bus EXCEPT
                 !.timer = [r.timer EXCEPT !.interrupt = FALSE],
                 !.apu = r.apu,
                 !.if_register = IF r.timer.interrupt THEN BitOr(@, 4) ELSE @]

\* The PPU tick of run_step and the interrupt requests it collects.
DeviceTick(bus, cycles) ==
    LET ppu1 == PpuTick(bus.ppu, cycles, bus.oam)
        if1 == IF ppu1.vblank_interrupt
               THEN BitOr(bus.if_register, 1) ELSE bus.if_register
        if2 == IF ppu1.stat_interrupt THEN BitOr(if1, 2) ELSE if1
        if3 == IF bus.joypad.interrupt THEN BitOr(if2, 16) ELSE if2
    IN  [bus EXCEPT !.ppu = ppu1, !.if_register = if3,
                    !.joypad.interrupt = FALSE]

\* run_step: the emulator afterwards and the record of the CPU step.
RunStep(g) ==
    Only({[st EXCEPT
              !.cpu.bus = DeviceTick(LeftoverTick(st.cpu.bus, st.cycles),
                                     st.cycles)] :
          st \in {Step([g EXCEPT !.bus.cycles_ticked = 0])}})

(***************************************************************************)
(* Specification SpecCpu: an emulator built on a cartridge whose ROM holds *)
(* a short program at the entry point, advanced by run_step while the host *)
(* delivers key events.  IE, IF, IME and the timer registers start at      *)
(* values a guest program sets by register writes.  trace records every    *)
(* run_step: the emulator before the call (pre), the CPU as step() left it *)
(* (post) and what step() did.                                             *)
(***************************************************************************)
Unused == "unused"

IeValues == {0, 1, 31}
IfValues == {0, 1, 20}
HostKeys == {4}

\* TAC = enabled at 262144 Hz, TIMA one increment from overflow.
TimerArmed == [TimerDefault EXCEPT !.tima = 255, !.tac = 5]

\* A ROM image, zero but for the bytes of prog (indexed from 0) at base.
RomAt(base, prog) ==
    [a \in {base + i : i \in {j \in DOMAIN prog : prog[j] # 0}}
        |-> prog[a - base]]

RomWith(prog) == RomAt(EntryPoint, prog)

InitCpu ==
    /\ dev = Unused
    /\ \E prog \in [0..(ProgLen - 1) -> Opcodes], ie \in IeValues,
          if \in IfValues, ime \in BOOLEAN, timer \in {TimerDefault, TimerArmed} :
          gb = [CpuNew(CartridgeOf(RomWith(prog))) EXCEPT
                   !.ime = ime, !.bus.ie_register = ie,
                   !.bus.if_register = if, !.bus.timer = timer]
    /\ trace = <<>>
    /\ keys = 0
    /\ frame = Unused
    /\ pp = Unused
    /\ sv = Unused

\* One call of GameBoy::run_step.
CpuRunStep ==
    /\ Len(trace) < MaxSteps
    /\ Decodes(NextOpcode(gb))
    /\ \E r \in {RunStep(gb)} :
           /\ gb' = r.cpu
           /\ trace' = Append(trace,
                  [pre |-> gb, post |-> Step([gb EXCEPT !.bus.cycles_ticked = 0]).cpu,
                   kind |-> r.kind, cycles |-> r.cycles, bit |-> r.bit,
                   op |-> r.op, at |-> r.at])
    /\ UNCHANGED <<keys, frame, pp, sv, dev>>

\* The host presses a key between two steps (update_joypad).
HostKeyDown ==
    /\ keys < MaxKeys
    /\ Len(trace) < MaxSteps
    /\ \E key \in HostKeys : gb' = [gb EXCEPT !.bus.joypad = KeyDown(@, key)]
    /\ keys' = keys + 1
    /\ UNCHANGED <<trace, frame, pp, sv, dev>>

NextCpu == CpuRunStep \/ HostKeyDown

SpecCpu == InitCpu /\ [][NextCpu]_vars

(***************************************************************************)
(* Properties of CPU::step, read off the trace.                            *)
(***************************************************************************)
\* An address whose write the bus stores and whose read returns it.
InRam(address) == address \in 49152..65023 \/ address \in 65408..65535

\* The IF bit the timer raises during n T-cycles of bus accesses, if any.
TimerRequest(bus, n) ==
    IF TimerTick(bus.timer, bus.apu, n).timer.interrupt THEN 4 ELSE 0

EiWithImeClear(r) ==
    r.kind = "exec" /\ r.op = OpEI /\ ~r.pre.ime /\ ~r.pre.ei_pending

\* What C6 states of the steps around an EI, the step after the following
\* instruction being bound to service a pending interrupt when must(op).
EiDelayHolds(must(_)) ==
    \A i \in DOMAIN trace :
        EiWithImeClear(trace[i]) =>
            /\ ~trace[i].post.ime
            /\ (i + 1) \in DOMAIN trace =>
                   /\ ~trace[i + 1].pre.ime
                   /\ trace[i + 1].kind = "exec"
                   /\ trace[i + 1].at = trace[i].post.pc
            /\ ((i + 2) \in DOMAIN trace /\ Pending(trace[i + 2].pre) # 0
                    /\ must(trace[i + 1].op)) =>
                   trace[i + 2].kind = "interrupt"

AnyInstruction(op) == TRUE

NotDi(op) == op # OpDI

\* C6 as stated: after EI with IME clear, IME stays clear until the next
\* instruction has begun, no interrupt is serviced between EI and the
\* following instruction, and a pending enabled interrupt is serviced at the
\* first step after that instruction retires, whatever the instruction.
C6_Original == EiDelayHolds(AnyInstruction)

\* C6 amended: as C6, the interrupt being serviced at the first step after
\* the following instruction provided that instruction is not DI.
C6_EiDelay == EiDelayHolds(NotDi)

\* C6 witness: an interrupt is pending across EI and the instruction after
\* it, and is serviced at the next step.
C6_Witness ==
    \E i \in DOMAIN trace :
        /\ EiWithImeClear(trace[i])
        /\ (i + 2) \in DOMAIN trace
        /\ Pending(trace[i].pre) # 0
        /\ Pending(trace[i + 1].pre) # 0
        /\ trace[i + 2].kind = "interrupt"

\* HALT executed in step r with IME clear and an enabled request pending.
HaltBugCase(r) ==
    r.kind = "exec" /\ r.op = OpHALT /\ ~r.post.ime /\ Pending(r.post) # 0

\* Instruction length in bytes, for the subset.
InstrLen(op) == IF op \in {OpLDBd8, OpJR} THEN 2 ELSE 1

\* What C7 states, the replay of the following instruction being claimed
\* when replays(op).
HaltBugHolds(replays(_)) ==
    \A i \in DOMAIN trace :
        LET r == trace[i]
        IN  /\ HaltBugCase(r) =>
                /\ ~r.post.halted
                /\ r.post.halt_bug
                /\ (i + 1) \in DOMAIN trace =>
                       LET n == trace[i + 1]
                       IN  /\ n.kind = "exec"
                           /\ n.at = r.post.pc
                           /\ n.op = OpINCB =>
                                  n.post.registers.b
                                      = W8(n.pre.registers.b + 1)
                           /\ replays(n.op) =>
                                  /\ n.post.pc = n.at
                                  /\ ~n.post.halt_bug
                                  /\ (i + 2) \in DOMAIN trace =>
                                         /\ trace[i + 2].kind = "exec"
                                         /\ trace[i + 2].at = n.at
                                         /\ trace[i + 2].op = n.op
                                         /\ trace[i + 2].post.pc
                                                = W16(n.at + InstrLen(n.op))
            /\ (r.kind = "exec" /\ r.op = OpHALT /\ ~HaltBugCase(r)) =>
                   r.post.halted /\ ~r.post.halt_bug

OneByteSequential(op) == op \in {OpNOP, OpINCB, OpDI, OpEI}

\* C7 as stated: HALT with IME clear and a request pending does not halt
\* and sets the HALT-bug flag; the next step executes the following
\* instruction once, leaves PC at that instruction's own address and clears
\* the flag; the step after executes the same instruction again and advances
\* PC normally.  Otherwise HALT halts and never sets the flag.
C7_Original == HaltBugHolds(AnyInstruction)

\* C7 amended: as C7, the following instruction being left at its own
\* address with the flag clear and executed a second time when it is a
\* one-byte instruction other than HALT that does not transfer control.
C7_HaltBug == HaltBugHolds(OneByteSequential)

\* C7 witness: the HALT bug replays an EI.
C7_Witness ==
    \E i \in DOMAIN trace :
        /\ HaltBugCase(trace[i])
        /\ (i + 2) \in DOMAIN trace
        /\ trace[i + 1].op = OpEI
        /\ trace[i + 2].op = OpEI
        /\ trace[i + 2].at = trace[i + 1].at

\* The start of the scenario of C8: IME clear, IE = IF = 0x01, HALT then
\* INC B at PC.
HaltIncB(g) ==
    /\ ~g.ime /\ ~g.halted /\ ~g.ei_pending /\ ~g.halt_bug
    /\ g.bus.ie_register = 1 /\ g.bus.if_register = 1
    /\ ReadByteNoTick(g.bus, g.pc) = OpHALT
    /\ ReadByteNoTick(g.bus, W16(g.pc + 1)) = OpINCB

\* C8 as stated: from that start, after exactly two step() calls B has been
\* incremented twice and PC is one byte past HALT.
C8_Original ==
    \A i \in DOMAIN trace :
        (HaltIncB(trace[i].pre) /\ (i + 1) \in DOMAIN trace) =>
            /\ trace[i + 1].post.registers.b
                   = W8(trace[i].pre.registers.b + 2)
            /\ trace[i + 1].post.pc = W16(trace[i].pre.pc + 1)

\* C8 amended: from that start, after exactly two step() calls B has been
\* incremented once and PC is one byte past HALT; after exactly three, B has
\* been incremented twice and PC is two bytes past HALT.
C8_HaltIncB ==
    \A i \in DOMAIN trace :
        HaltIncB(trace[i].pre) =>
            /\ (i + 1) \in DOMAIN trace =>
                   /\ trace[i + 1].post.registers.b
                          = W8(trace[i].pre.registers.b + 1)
                   /\ trace[i + 1].post.pc = W16(trace[i].pre.pc + 1)
            /\ (i + 2) \in DOMAIN trace =>
                   /\ trace[i + 2].post.registers.b
                          = W8(trace[i].pre.registers.b + 2)
                   /\ trace[i + 2].post.pc = W16(trace[i].pre.pc + 2)

\* C8 witness: the scenario has run for three steps.
C8_Witness ==
    \E i \in DOMAIN trace :
        /\ HaltIncB(trace[i].pre)
        /\ (i + 2) \in DOMAIN trace
        /\ trace[i + 2].post.registers.b = 2

\* C9: a halted CPU stays halted exactly as long as IF & IE & 0x1F is zero,
\* each such step returning 4 and changing no register, PC, SP or memory;
\* at the first step with a request pending it leaves HALT whatever IME is:
\* with IME set the interrupt is serviced, with IME clear execution resumes
\* at the instruction after HALT and no interrupt is serviced.
C9_HaltedWake ==
    \A i \in DOMAIN trace :
        LET r == trace[i]
        IN  r.pre.halted =>
                /\ Pending(r.pre) = 0 =>
                       /\ r.kind = "halted"
                       /\ r.cycles = 4
                       /\ r.post = [r.pre EXCEPT !.bus.cycles_ticked = 0]
                /\ Pending(r.pre) # 0 =>
                       /\ ~r.post.halted
                       /\ r.pre.ime => r.kind = "interrupt"
                       /\ ~r.pre.ime =>
                              /\ r.kind = "exec"
                              /\ r.at = r.pre.pc
                              /\ ReadByteNoTick(r.pre.bus, W16(r.pre.pc - 1))
                                     = OpHALT
                              /\ r.post.bus.if_register
                                     >= r.pre.bus.if_register

\* C9 witness: a halted CPU idles one step, then wakes with IME clear.
C9_Witness ==
    \E i \in DOMAIN trace :
        /\ (i + 1) \in DOMAIN trace
        /\ trace[i].kind = "halted"
        /\ trace[i + 1].pre.halted
        /\ ~trace[i + 1].pre.ime
        /\ trace[i + 1].kind = "exec"

(***************************************************************************)
(* Specification SpecFrame: the frame drivers of gameboy.rs.  One action   *)
(* is one iteration of the driver's loop, the first iteration of a call    *)
(* starting the call with cycles_this_frame = 0.  frame.consumed is        *)
(* cycles_this_frame at the last return and frame.last the cycles of the   *)
(* last step; frame.hit tells a return on a breakpoint.  run_frame is the   *)
(* loop without breakpoints.  frame.steps counts the iterations of the     *)
(* current or last call and frame.kind is what its last step did.          *)
(***************************************************************************)
CYCLES_PER_FRAME == 70224

MaxFrames == 2      \* driver calls explored per behaviour

\* Programs that loop at the entry point: JR -2; LD B,0 / JR -4;
\* INC B / JR -3.
FramePrograms ==
    {<<OpJR, 254>>, <<OpLDBd8, 0, OpJR, 252>>, <<OpINCB, OpJR, 253>>}

ProgAt0(q) == [i \in 0..(Len(q) - 1) |-> q[i + 1]]

BreakpointSets == {{}, {EntryPoint + 1}}

InitFrame ==
    /\ dev = Unused
    /\ \E q \in FramePrograms :
          gb = CpuNew(CartridgeOf(RomAt(EntryPoint, ProgAt0(q))))
    /\ frame = [running |-> FALSE, driver |-> "none", breakpoints |-> {},
                cycles_this_frame |-> 0, frames |-> 0, consumed |-> 0,
                last |-> 0, hit |-> FALSE, steps |-> 0, kind |-> "none"]
    /\ trace = <<>>
    /\ keys = 0
    /\ pp = Unused
    /\ sv = Unused

\* Mutation of FrameContinues: the loop runs while the count is at most
\* CYCLES_PER_FRAME.
FrameContinuesLate(cycles_this_frame) == cycles_this_frame <= CYCLES_PER_FRAME

\* The loop condition of both drivers.
FrameContinues(cycles_this_frame) == cycles_this_frame < CYCLES_PER_FRAME

\* One iteration of the loop of driver: run one step, add its cycles, leave
\* on a breakpoint (run_frame_with_breakpoints) or when the loop condition
\* fails.
FrameIteration(driver, breakpoints) ==
    /\ IF frame.running
       THEN frame.driver = driver /\ frame.breakpoints = breakpoints
       ELSE frame.frames < MaxFrames
    /\ Decodes(NextOpcode(gb))
    /\ \E r \in {RunStep(gb)} :
       LET before == IF frame.running THEN frame.cycles_this_frame ELSE 0
           total == before + r.cycles
           hit == r.cpu.pc \in breakpoints
           done == hit \/ ~FrameContinues(total)
       IN  /\ gb' = r.cpu
           /\ frame' = [frame EXCEPT
                           !.running = ~done,
                           !.driver = driver,
                           !.breakpoints = breakpoints,
                           !.cycles_this_frame = total,
                           !.frames = IF done THEN @ + 1 ELSE @,
                           !.consumed = IF done THEN total ELSE @,
                           !.last = r.cycles,
                           !.hit = IF done THEN hit ELSE @,
                           !.steps = IF frame.running THEN @ + 1 ELSE 1,
                           !.kind = r.kind]
    /\ UNCHANGED <<trace, keys, pp, sv, dev>>

RunFrame == FrameIteration("run_frame", {})

RunFrameWithBreakpoints ==
    \E bps \in BreakpointSets :
        FrameIteration("run_frame_with_breakpoints", bps)

NextFrame == RunFrame \/ RunFrameWithBreakpoints

SpecFrame == InitFrame /\ [][NextFrame]_vars

\* A driver call has returned without hitting a breakpoint.
FrameReturned == ~frame.running /\ frame.frames > 0 /\ ~frame.hit

\* C1 as stated: run_frame, and run_frame_with_breakpoints when no
\* breakpoint is hit, returns after exactly 70,224 T-cycles have been
\* consumed since the previous frame boundary.
C1_Original == FrameReturned => frame.consumed = CYCLES_PER_FRAME

\* C1 amended: the drivers return at the first instruction boundary at
\* which at least 70,224 T-cycles have been consumed since the call began:
\* the count is at least 70,224 and was below 70,224 before the last step.
C1_FrameLength ==
    FrameReturned =>
        /\ frame.consumed >= CYCLES_PER_FRAME
        /\ frame.consumed - frame.last < CYCLES_PER_FRAME

\* C1 witness: a frame has returned with more than 70,224 T-cycles consumed,
\* and a second one after it.
C1_Witness ==
    /\ FrameReturned
    /\ frame.frames = 2
    /\ frame.consumed > CYCLES_PER_FRAME

(***************************************************************************)
(* Specification SpecPpu: the PPU as run_step drives it.  A step consumes  *)
(* cycles T-cycles; a guest write to LCDC made by the step's instruction   *)
(* lands before the step's Ppu::tick.  pp.since counts the T-cycles        *)
(* consumed since the last VBlank request (since the start before the      *)
(* first), pp.off those of them consumed by ticks with the LCD off, and    *)
(* pp.gap and pp.gap_off are the two counts between the last two requests. *)
(***************************************************************************)
MaxOffSteps == 1    \* steps taken with the LCD off per behaviour
MaxRequests == 2    \* VBlank requests followed per behaviour

StepCycles == {4, 20}

LcdcOn == 145
LcdcOff == 17

\* Eleven sprites on lines 0..7, at x = 8, 16, ...
OamSprites ==
    [a \in {4 * i : i \in 0..10} \cup {4 * i + 1 : i \in 0..10}
        |-> IF a % 4 = 0 THEN 16 ELSE 8 + 8 * (a \div 4)]

InitPpu ==
    /\ dev = Unused
    /\ pp = [ppu |-> [PpuDefault EXCEPT !.scx = 5], oam |-> OamSprites,
             since |-> 0, off |-> 0, requests |-> 0, gap |-> 0,
             gap_off |-> 0, off_steps |-> 0]
    /\ gb = Unused
    /\ trace = <<>>
    /\ keys = 0
    /\ frame = Unused
    /\ sv = Unused

\* The PPU part of run_step after an instruction of the given cycles that
\* left LCDC at lcdc.
PpuStep(cycles, lcdc) ==
    LET lcd_off == Bit(lcdc, 7) = 0
        r == PpuTickObs([pp.ppu EXCEPT !.lcdc = lcdc], cycles, pp.oam)
        requested == r.vb >= 0
        spent == IF lcd_off THEN cycles ELSE 0
    IN  /\ pp.requests < MaxRequests
        /\ lcd_off => pp.off_steps < MaxOffSteps
        /\ pp' = [pp EXCEPT
                     !.ppu = r.p,
                     !.since = IF requested THEN r.vb ELSE @ + cycles,
                     !.off = IF requested THEN 0 ELSE @ + spent,
                     !.requests = IF requested THEN @ + 1 ELSE @,
                     !.gap = IF requested /\ pp.requests > 0
                             THEN pp.since + (cycles - r.vb) ELSE @,
                     !.gap_off = IF requested /\ pp.requests > 0
                                 THEN pp.off ELSE @,
                     !.off_steps = IF lcd_off THEN @ + 1 ELSE @]
        /\ UNCHANGED <<gb, trace, keys, frame, sv, dev>>

\* A step whose instruction does not write LCDC.
PpuRunStep == \E cycles \in StepCycles : PpuStep(cycles, pp.ppu.lcdc)

\* A step whose instruction writes LCDC (write_io, 0xFF40).
PpuRunStepWritingLcdc ==
    \E cycles \in StepCycles, lcdc \in {LcdcOn, LcdcOff} :
        lcdc # pp.ppu.lcdc /\ PpuStep(cycles, lcdc)

NextPpu == PpuRunStep \/ PpuRunStepWritingLcdc

SpecPpu == InitPpu /\ [][NextPpu]_vars

\* C10 as stated: exactly 70,224 T-cycles are consumed between any two
\* consecutive VBlank interrupt requests, for all inputs, programs that
\* write LCDC included.
C10_Original == pp.requests >= 2 => pp.gap = CYCLES_PER_FRAME

\* C10 amended: the T-cycles consumed between two consecutive VBlank
\* requests are 70,224 plus the T-cycles of the steps taken in between with
\* the LCD switched off (LCDC bit 7 clear), during which the PPU stands
\* still; with the LCD on throughout they are exactly 70,224.
C10_VBlankPeriod ==
    pp.requests >= 2 => pp.gap = CYCLES_PER_FRAME + pp.gap_off

\* C10 witness: two requests 70,224 T-cycles apart with the LCD on in
\* between, after the LCD was off for a step before the first of them.
C10_Witness ==
    /\ pp.requests >= 2
    /\ pp.gap = CYCLES_PER_FRAME
    /\ pp.gap_off = 0
    /\ pp.off_steps > 0

(***************************************************************************)
(* Save states (savestate.rs).  A snapshot is a sequence of units: a byte  *)
(* is [len |-> 1, v |-> value] and an array written by one write_bytes is  *)
(* one unit [len |-> n, v |-> contents].  Multi-byte integers are written  *)
(* little-endian, a bool as 1 or 0 and read back as "not zero".            *)
(***************************************************************************)
MAGIC == <<71, 66, 83, 83>>
VERSION == 2
HeaderLen == 10

Byte(v) == [len |-> 1, v |-> v]

WriteU8(val) == <<Byte(val)>>

WriteU16Le(val) == <<Byte(val % 256), Byte(val \div 256)>>

WriteU32Le(val) ==
    <<Byte(val % 256), Byte((val \div 256) % 256),
      Byte((val \div 65536) % 256), Byte(val \div 16777216)>>

WriteBool(val) == <<Byte(IF val THEN 1 ELSE 0)>>

WriteBytes(data, n) == <<[len |-> n, v |-> data]>>

ReadU8(u) == u[1].v

ReadU16Le(u) == u[1].v + 256 * u[2].v

ReadU32Le(u) == u[1].v + 256 * u[2].v + 65536 * u[3].v + 16777216 * u[4].v

ReadBool(u) == u[1].v # 0

ReadBytes(u) == u[1].v

\* The bytes of the units lo..hi of data.
RECURSIVE BytesIn(_, _, _)
BytesIn(data, lo, hi) ==
    IF lo > hi THEN 0
    ELSE IF lo = hi THEN data[lo].len
    ELSE LET mid == (lo + hi) \div 2
         IN  BytesIn(data, lo, mid) + BytesIn(data, mid + 1, hi)

ByteLen(data) == BytesIn(data, 1, Len(data))

\* Cartridge::mbc_type_tag and Cartridge::ram_len.
MbcTypeTag(cart) ==
    CASE cart.mbc = "NoMbc" -> 0
      [] cart.mbc = "Mbc1" -> 1
      [] cart.mbc = "Mbc3" -> 3
      [] OTHER -> 5

RamLen(cart) == cart.ram_len

\* The fields of a snapshot's body in the order save_state writes them and
\* load_state reads them; i numbers the entries of an array of structs.
F(name) == [f |-> name, i |-> 0]

Fs(name, lo, hi) == [k \in 1..(hi - lo + 1) |-> [f |-> name, i |-> lo + k - 1]]

RegisterFields ==
    <<F("a"), F("b"), F("c"), F("d"), F("e"), F("f"), F("h"), F("l")>>

CpuFields == <<F("pc"), F("sp"), F("flags")>>

BusFields ==
    <<F("vram"), F("wram"), F("oam"), F("io"), F("hram"),
      F("ie_register"), F("if_register")>>

TimerFields ==
    <<F("tima"), F("tma"), F("tac"), F("internal_counter"),
      F("timer.interrupt")>>

PpuFields ==
    <<F("framebuffer"), F("mode"), F("mode_clock"), F("ly"), F("lyc"),
      F("lcdc"), F("stat"), F("scy"), F("scx"), F("bgp"), F("wy"), F("wx"),
      F("obp0"), F("obp1"), F("vblank_interrupt"), F("stat_interrupt"),
      F("pixel_x"), F("scx_discard"), F("window_line_counter"),
      F("window_active"), F("wy_triggered"), F("sprite_fetching"),
      F("sprite_fetch_step"), F("sprite_fetch_idx"),
      F("sprite_tile_data_low"), F("sprite_tile_data_high"),
      F("drawing_cycles"), F("oam_scan_index"), F("oam_scan_tick"),
      F("sprite_count")>>
    \o Fs("scanline_sprites", 1, MaxLineSprites)
    \o <<F("fetcher.state"), F("fetcher.tick"), F("fetcher.tile_index"),
         F("fetcher.tile_data_low"), F("fetcher.tile_data_high"),
         F("fetcher.tile_x"), F("fetcher.fetching_window"),
         F("bg_fifo.head"), F("bg_fifo.len")>>
    \o Fs("bg_fifo.pixels", 0, 15)
    \o <<F("obj_fifo.head"), F("obj_fifo.len")>>
    \o Fs("obj_fifo.pixels", 0, 15)

JoypadFields ==
    <<F("select"), F("buttons"), F("dpad"), F("joypad.interrupt")>>

\* A cartridge without a controller and without RAM has no mutable state.
CartridgeFields == <<>>

\* CPU::save_state and MemoryBus::save_state: the APU and cycles_ticked are
\* not among the fields.
BodyFields ==
    RegisterFields \o CpuFields \o BusFields \o TimerFields \o PpuFields
    \o JoypadFields \o CartridgeFields

BlankSprite == [oam_index |-> 0, x |-> 0, y |-> 0, tile |-> 0, flags |-> 0]

FlagsByte(g) ==
    (IF g.ime THEN 1 ELSE 0) + (IF g.halted THEN 2 ELSE 0)
    + (IF g.ei_pending THEN 4 ELSE 0) + (IF g.halt_bug THEN 8 ELSE 0)

FetcherStateBits(state) ==
    CASE state = "ReadTileId" -> 0
      [] state = "ReadTileDataLow" -> 1
      [] state = "ReadTileDataHigh" -> 2
      [] OTHER -> 3

ModeOf(byte) ==
    CASE byte = 0 -> "HBlank"
      [] byte = 1 -> "VBlank"
      [] byte = 2 -> "OamScan"
      [] OTHER -> "Drawing"

FetcherStateOf(byte) ==
    CASE byte = 0 -> "ReadTileId"
      [] byte = 1 -> "ReadTileDataLow"
      [] byte = 2 -> "ReadTileDataHigh"
      [] OTHER -> "Push"

\* What save_state writes for one field of emulator g.  Fields that hold
\* pixel contents, which no timing depends on, keep their place and width.
FieldWrite(g, fd) ==
    LET n == fd.f
        r == g.registers
        b == g.bus
        t == g.bus.timer
        p == g.bus.ppu
        j == g.bus.joypad
    IN  CASE n = "a" -> WriteU8(r.a)
          [] n = "b" -> WriteU8(r.b)
          [] n = "c" -> WriteU8(r.c)
          [] n = "d" -> WriteU8(r.d)
          [] n = "e" -> WriteU8(r.e)
          [] n = "f" -> WriteU8(r.f)
          [] n = "h" -> WriteU8(r.h)
          [] n = "l" -> WriteU8(r.l)
          [] n = "pc" -> WriteU16Le(g.pc)
          [] n = "sp" -> WriteU16Le(g.sp)
          [] n = "flags" -> WriteU8(FlagsByte(g))
          [] n = "vram" -> WriteBytes(b.vram, 8192)
          [] n = "wram" -> WriteBytes(b.wram, 8192)
          [] n = "oam" -> WriteBytes(b.oam, 160)
          [] n = "io" -> WriteBytes(b.io, 128)
          [] n = "hram" -> WriteBytes(b.hram, 127)
          [] n = "ie_register" -> WriteU8(b.ie_register)
          [] n = "if_register" -> WriteU8(b.if_register)
          [] n = "tima" -> WriteU8(t.tima)
          [] n = "tma" -> WriteU8(t.tma)
          [] n = "tac" -> WriteU8(t.tac)
          [] n = "internal_counter" -> WriteU16Le(t.internal_counter)
          [] n = "timer.interrupt" -> WriteBool(t.interrupt)
          [] n = "framebuffer" -> WriteBytes(EmptyMem, 160 * 144)
          [] n = "mode" -> WriteU8(ModeBits(p.mode))
          [] n = "mode_clock" -> WriteU32Le(p.mode_clock)
          [] n = "ly" -> WriteU8(p.ly)
          [] n = "lyc" -> WriteU8(p.lyc)
          [] n = "lcdc" -> WriteU8(p.lcdc)
          [] n = "stat" -> WriteU8(p.stat)
          [] n = "scy" -> WriteU8(p.scy)
          [] n = "scx" -> WriteU8(p.scx)
          [] n = "bgp" -> WriteU8(p.bgp)
          [] n = "wy" -> WriteU8(p.wy)
          [] n = "wx" -> WriteU8(p.wx)
          [] n = "obp0" -> WriteU8(p.obp0)
          [] n = "obp1" -> WriteU8(p.obp1)
          [] n = "vblank_interrupt" -> WriteBool(p.vblank_interrupt)
          [] n = "stat_interrupt" -> WriteBool(p.stat_interrupt)
          [] n = "pixel_x" -> WriteU8(p.pixel_x)
          [] n = "scx_discard" -> WriteU8(p.scx_discard)
          [] n = "window_line_counter" -> WriteU8(p.window_line_counter)
          [] n = "window_active" -> WriteBool(p.window_active)
          [] n = "wy_triggered" -> WriteBool(p.wy_triggered)
          [] n = "sprite_fetching" -> WriteBool(p.sprite_fetching)
          [] n = "sprite_fetch_step" -> WriteU8(p.sprite_fetch_step)
          [] n = "sprite_fetch_idx" -> WriteU8(p.sprite_fetch_idx)
          [] n = "drawing_cycles" -> WriteU32Le(0)
          [] n = "sprite_count" -> WriteU8(Len(p.sprites))
          [] n = "scanline_sprites" ->
               LET s == IF fd.i <= Len(p.sprites)
                        THEN p.sprites[fd.i] ELSE BlankSprite
               IN  WriteU8(s.oam_index) \o WriteU8(s.x) \o WriteU8(s.y)
                   \o WriteU8(s.tile) \o WriteU8(s.flags)
          [] n = "fetcher.state" -> WriteU8(FetcherStateBits(p.fetcher.state))
          [] n = "fetcher.tick" -> WriteU8(p.fetcher.tick)
          [] n = "fetcher.tile_x" -> WriteU8(p.fetcher.tile_x)
          [] n = "fetcher.fetching_window" ->
               WriteBool(p.fetcher.fetching_window)
          [] n = "bg_fifo.head" -> WriteU8(p.bg_fifo.head)
          [] n = "bg_fifo.len" -> WriteU8(p.bg_fifo.len)
          [] n = "obj_fifo.head" -> WriteU8(p.obj_fifo.head)
          [] n = "obj_fifo.len" -> WriteU8(p.obj_fifo.len)
          [] n \in {"bg_fifo.pixels", "obj_fifo.pixels"} ->
               WriteU8(0) \o WriteU8(0) \o WriteBool(FALSE) \o WriteBool(FALSE)
          [] n = "select" -> WriteU8(j.select)
          [] n = "buttons" -> WriteU8(j.buttons)
          [] n = "dpad" -> WriteU8(j.dpad)
          [] n = "joypad.interrupt" -> WriteBool(j.interrupt)
          [] OTHER -> WriteU8(0)

\* What load_state assigns from the units u it read for one field.
FieldRead(g, fd, u) ==
    LET n == fd.f
    IN  CASE n = "a" -> [g EXCEPT !.registers.a = ReadU8(u)]
          [] n = "b" -> [g EXCEPT !.registers.b = ReadU8(u)]
          [] n = "c" -> [g EXCEPT !.registers.c = ReadU8(u)]
          [] n = "d" -> [g EXCEPT !.registers.d = ReadU8(u)]
          [] n = "e" -> [g EXCEPT !.registers.e = ReadU8(u)]
          [] n = "f" -> [g EXCEPT !.registers.f = ReadU8(u)]
          [] n = "h" -> [g EXCEPT !.registers.h = ReadU8(u)]
          [] n = "l" -> [g EXCEPT !.registers.l = ReadU8(u)]
          [] n = "pc" -> [g EXCEPT !.pc = ReadU16Le(u)]
          [] n = "sp" -> [g EXCEPT !.sp = ReadU16Le(u)]
          [] n = "flags" ->
               [g EXCEPT !.ime = Bit(ReadU8(u), 0) = 1,
                         !.halted = Bit(ReadU8(u), 1) = 1,
                         !.ei_pending = Bit(ReadU8(u), 2) = 1,
                         !.halt_bug = Bit(ReadU8(u), 3) = 1]
          [] n = "vram" -> [g EXCEPT !.bus.vram = ReadBytes(u)]
          [] n = "wram" -> [g EXCEPT !.bus.wram = ReadBytes(u)]
          [] n = "oam" -> [g EXCEPT !.bus.oam = ReadBytes(u)]
          [] n = "io" -> [g EXCEPT !.bus.io = ReadBytes(u)]
          [] n = "hram" -> [g EXCEPT !.bus.hram = ReadBytes(u)]
          [] n = "ie_register" -> [g EXCEPT !.bus.ie_register = ReadU8(u)]
          [] n = "if_register" -> [g EXCEPT !.bus.if_register = ReadU8(u)]
          [] n = "tima" -> [g EXCEPT !.bus.timer.tima = ReadU8(u)]
          [] n = "tma" -> [g EXCEPT !.bus.timer.tma = ReadU8(u)]
          [] n = "tac" -> [g EXCEPT !.bus.timer.tac = ReadU8(u)]
          [] n = "internal_counter" ->
               [g EXCEPT !.bus.timer.internal_counter = ReadU16Le(u)]
          [] n = "timer.interrupt" ->
               [g EXCEPT !.bus.timer.interrupt = ReadBool(u)]
          [] n = "mode" -> [g EXCEPT !.bus.ppu.mode = ModeOf(ReadU8(u))]
          [] n = "mode_clock" -> [g EXCEPT !.bus.ppu.mode_clock = ReadU32Le(u)]
          [] n = "ly" -> [g EXCEPT !.bus.ppu.ly = ReadU8(u)]
          [] n = "lyc" -> [g EXCEPT !.bus.ppu.lyc = ReadU8(u)]
          [] n = "lcdc" -> [g EXCEPT !.bus.ppu.lcdc = ReadU8(u)]
          [] n = "stat" -> [g EXCEPT !.bus.ppu.stat = ReadU8(u)]
          [] n = "scy" -> [g EXCEPT !.bus.ppu.scy = ReadU8(u)]
          [] n = "scx" -> [g EXCEPT !.bus.ppu.scx = ReadU8(u)]
          [] n = "bgp" -> [g EXCEPT !.bus.ppu.bgp = ReadU8(u)]
          [] n = "wy" -> [g EXCEPT !.bus.ppu.wy = ReadU8(u)]
          [] n = "wx" -> [g EXCEPT !.bus.ppu.wx = ReadU8(u)]
          [] n = "obp0" -> [g EXCEPT !.bus.ppu.obp0 = ReadU8(u)]
          [] n = "obp1" -> [g EXCEPT !.bus.ppu.obp1 = ReadU8(u)]
          [] n = "vblank_interrupt" ->
               [g EXCEPT !.bus.ppu.vblank_interrupt = ReadBool(u)]
          [] n = "stat_interrupt" ->
               [g EXCEPT !.bus.ppu.stat_interrupt = ReadBool(u)]
          [] n = "pixel_x" -> [g EXCEPT !.bus.ppu.pixel_x = ReadU8(u)]
          [] n = "scx_discard" -> [g EXCEPT !.bus.ppu.scx_discard = ReadU8(u)]
          [] n = "window_line_counter" ->
               [g EXCEPT !.bus.ppu.window_line_counter = ReadU8(u)]
          [] n = "window_active" ->
               [g EXCEPT !.bus.ppu.window_active = ReadBool(u)]
          [] n = "wy_triggered" ->
               [g EXCEPT !.bus.ppu.wy_triggered = ReadBool(u)]
          [] n = "sprite_fetching" ->
               [g EXCEPT !.bus.ppu.sprite_fetching = ReadBool(u)]
          [] n = "sprite_fetch_step" ->
               [g EXCEPT !.bus.ppu.sprite_fetch_step = ReadU8(u)]
          [] n = "sprite_fetch_idx" ->
               [g EXCEPT !.bus.ppu.sprite_fetch_idx = ReadU8(u)]
          [] n = "sprite_count" ->
               [g EXCEPT !.bus.ppu.sprites =
                   [k \in 1..ReadU8(u) |->
                       IF k <= Len(@) THEN @[k] ELSE BlankSprite]]
          [] n = "scanline_sprites" ->
               IF fd.i > Len(g.bus.ppu.sprites) THEN g
               ELSE [g EXCEPT !.bus.ppu.sprites[fd.i] =
                        [oam_index |-> u[1].v, x |-> u[2].v, y |-> u[3].v,
                         tile |-> u[4].v, flags |-> u[5].v]]
          [] n = "fetcher.state" ->
               [g EXCEPT !.bus.ppu.fetcher.state = FetcherStateOf(ReadU8(u))]
          [] n = "fetcher.tick" -> [g EXCEPT !.bus.ppu.fetcher.tick = ReadU8(u)]
          [] n = "fetcher.tile_x" ->
               [g EXCEPT !.bus.ppu.fetcher.tile_x = ReadU8(u)]
          [] n = "fetcher.fetching_window" ->
               [g EXCEPT !.bus.ppu.fetcher.fetching_window = ReadBool(u)]
          [] n = "bg_fifo.head" -> [g EXCEPT !.bus.ppu.bg_fifo.head = ReadU8(u)]
          [] n = "bg_fifo.len" -> [g EXCEPT !.bus.ppu.bg_fifo.len = ReadU8(u)]
          [] n = "obj_fifo.head" ->
               [g EXCEPT !.bus.ppu.obj_fifo.head = ReadU8(u)]
          [] n = "obj_fifo.len" -> [g EXCEPT !.bus.ppu.obj_fifo.len = ReadU8(u)]
          [] n = "select" -> [g EXCEPT !.bus.joypad.select = ReadU8(u)]
          [] n = "buttons" -> [g EXCEPT !.bus.joypad.buttons = ReadU8(u)]
          [] n = "dpad" -> [g EXCEPT !.bus.joypad.dpad = ReadU8(u)]
          [] n = "joypad.interrupt" ->
               [g EXCEPT !.bus.joypad.interrupt = ReadBool(u)]
          [] OTHER -> g

\* The fields lo..hi of the body, in order.
RECURSIVE WriteFields(_, _, _)
WriteFields(g, lo, hi) ==
    IF lo > hi THEN <<>>
    ELSE IF lo = hi THEN FieldWrite(g, BodyFields[lo])
    ELSE LET mid == (lo + hi) \div 2
         IN  WriteFields(g, lo, mid) \o WriteFields(g, mid + 1, hi)

\* savestate::save: the header, then CPU::save_state.
Save(g) ==
    [i \in 1..4 |-> Byte(MAGIC[i])] \o WriteU8(VERSION)
    \o WriteU8(MbcTypeTag(g.bus.cartridge))
    \o WriteU32Le(RamLen(g.bus.cartridge))
    \o WriteFields(g, 1, Len(BodyFields))

\* One field of CPU::load_state at st.cursor: a read indexes data without
\* a length check and panics past its end; nothing is read after a panic.
LoadField(st, data, fd) ==
    LET w == Len(FieldWrite(st.gb, fd))
    IN  IF st.result = "panic" THEN st
        ELSE IF st.cursor + w > Len(data) THEN [st EXCEPT !.result = "panic"]
        ELSE [gb |-> FieldRead(st.gb, fd,
                               SubSeq(data, st.cursor + 1, st.cursor + w)),
              cursor |-> st.cursor + w, result |-> "ok"]

\* The fields lo..hi of the body, read in order.
RECURSIVE LoadFields(_, _, _, _)
LoadFields(st, data, lo, hi) ==
    IF lo > hi THEN st
    ELSE IF lo = hi THEN LoadField(st, data, BodyFields[lo])
    ELSE LET mid == (lo + hi) \div 2
             left == LoadFields(st, data, lo, mid)
         IN  IF left.result = "panic" THEN left
             ELSE LoadFields(left, data, mid + 1, hi)

MagicMatches(data) == \A i \in 1..4 : data[i].v = MAGIC[i]

VersionMatches(data) == data[5].v = VERSION

MbcTagMatches(cart, data) == data[6].v = MbcTypeTag(cart)

RamLenUnchecked(cart, data) == TRUE

RamLenMatches(cart, data) == ReadU32Le(SubSeq(data, 7, 10)) = RamLen(cart)

\* savestate::load.
Load(g, data) ==
    IF ByteLen(data) < HeaderLen THEN [gb |-> g, result |-> "err"]
    ELSE IF ~MagicMatches(data) THEN [gb |-> g, result |-> "err"]
    ELSE IF ~VersionMatches(data) THEN [gb |-> g, result |-> "err"]
    ELSE IF ~MbcTagMatches(g.bus.cartridge, data)
         THEN [gb |-> g, result |-> "err"]
    ELSE IF ~RamLenMatches(g.bus.cartridge, data)
         THEN [gb |-> g, result |-> "err"]
    ELSE LET st == LoadFields([gb |-> g, cursor |-> HeaderLen,
                               result |-> "ok"], data, 1, Len(BodyFields))
         IN  [gb |-> st.gb, result |-> st.result]

(***************************************************************************)
(* SpecSave: two emulators on the same cartridge, the source sv.src and    *)
(* the target gb, each advanced by run_step on its own; the source is      *)
(* saved, and the target loads the snapshot, one of its truncations, or    *)
(* the snapshot with one header byte changed.  After a load that returned  *)
(* Ok the two are advanced in lockstep.  sv.before is the target just      *)
(* before the load.                                                        *)
(***************************************************************************)
MaxSaveSteps == 2   \* run_step calls per emulator before the save
MaxAfter == 2       \* lockstep run_step calls after the load

SaveConfigs ==
    {[prog |-> <<OpEI, OpHALT, OpNOP>>, ie |-> 1, if |-> 0],
     [prog |-> <<OpHALT, OpINCB, OpNOP>>, ie |-> 1, if |-> 1],
     [prog |-> <<OpINCB, OpLDBd8, 7>>, ie |-> 0, if |-> 0]}

SaveStart(c) ==
    [CpuNew(CartridgeOf(RomAt(EntryPoint, ProgAt0(c.prog)))) EXCEPT
        !.bus.ie_register = c.ie, !.bus.if_register = c.if]

InitSave ==
    /\ dev = Unused
    /\ \E c \in SaveConfigs :
          /\ gb = SaveStart(c)
          /\ sv = [src |-> SaveStart(c), phase |-> "run", blob |-> <<>>,
                   data |-> <<>>, before |-> SaveStart(c),
                   result |-> "none", src_steps |-> 0, tgt_steps |-> 0,
                   after |-> 0]
    /\ trace = <<>>
    /\ keys = 0
    /\ frame = Unused
    /\ pp = Unused

SaveRunSource ==
    /\ sv.phase = "run"
    /\ sv.src_steps < MaxSaveSteps
    /\ Decodes(NextOpcode(sv.src))
    /\ sv' = [sv EXCEPT !.src = RunStep(sv.src).cpu, !.src_steps = @ + 1]
    /\ UNCHANGED <<gb, trace, keys, frame, pp, dev>>

SaveRunTarget ==
    /\ sv.phase = "run"
    /\ sv.tgt_steps < MaxSaveSteps
    /\ Decodes(NextOpcode(gb))
    /\ gb' = RunStep(gb).cpu
    /\ sv' = [sv EXCEPT !.tgt_steps = @ + 1]
    /\ UNCHANGED <<trace, keys, frame, pp, dev>>

SaveState ==
    /\ sv.phase = "run"
    /\ sv' = [sv EXCEPT !.blob = Save(sv.src), !.phase = "saved"]
    /\ UNCHANGED <<gb, trace, keys, frame, pp, dev>>

\* The byte strings handed to load.
Truncations(blob) == {SubSeq(blob, 1, n) : n \in 0..Len(blob)}

HeaderChanges(blob) ==
    {[blob EXCEPT ![1] = Byte(0)], [blob EXCEPT ![5] = Byte(VERSION + 1)],
     [blob EXCEPT ![6] = Byte(1)], [blob EXCEPT ![7] = Byte(1)]}

LoadState ==
    /\ sv.phase = "saved"
    /\ \E data \in Truncations(sv.blob) \cup HeaderChanges(sv.blob) :
          LET r == Load(gb, data)
          IN  /\ gb' = r.gb
              /\ sv' = [sv EXCEPT !.phase = "loaded", !.data = data,
                                  !.before = gb, !.result = r.result]
    /\ UNCHANGED <<trace, keys, frame, pp, dev>>

RunBoth ==
    /\ sv.phase = "loaded"
    /\ sv.result = "ok"
    /\ sv.after < MaxAfter
    /\ Decodes(NextOpcode(gb))
    /\ Decodes(NextOpcode(sv.src))
    /\ gb' = RunStep(gb).cpu
    /\ sv' = [sv EXCEPT !.src = RunStep(sv.src).cpu, !.after = @ + 1]
    /\ UNCHANGED <<trace, keys, frame, pp, dev>>

NextSave ==
    SaveRunSource \/ SaveRunTarget \/ SaveState \/ LoadState \/ RunBoth

SpecSave == InitSave /\ [][NextSave]_vars

\* The emulated machine: every field but the per-step scratch counter.
Machine(g) == [g EXCEPT !.bus.cycles_ticked = 0]

\* C2 as stated: after load(gb', save(gb)) returns Ok, gb' equals gb and
\* stays equal to it as both continue, for every reachable gb and every
\* other emulator gb' on the same cartridge.
C2_RoundTrip ==
    (sv.phase = "loaded" /\ sv.data = sv.blob) =>
        (sv.result = "ok" /\ Machine(gb) = Machine(sv.src))

\* The header mismatches of C3, read off the bytes handed to load.
HeaderMismatch ==
    LET d == sv.data
        cart == sv.before.bus.cartridge
    IN  \/ ByteLen(d) < 10
        \/ <<d[1].v, d[2].v, d[3].v, d[4].v>> # <<71, 66, 83, 83>>
        \/ d[5].v # 2
        \/ d[6].v # MbcTypeTag(cart)
        \/ d[7].v + 256 * d[8].v + 65536 * d[9].v + 16777216 * d[10].v
               # cart.ram_len

\* C3: when the data is shorter than 10 bytes, or its magic, version, MBC
\* tag or RAM length does not match, load returns an error and every field
\* of the emulator is as it was before the call.
C3_HeaderRejected ==
    (sv.phase = "loaded" /\ HeaderMismatch) =>
        (sv.result = "err" /\ gb = sv.before)

\* C3 witness: a complete snapshot of a source that differs from the
\* target, with a wrong RAM length in its header, was rejected.
C3_Witness ==
    /\ sv.phase = "loaded"
    /\ Len(sv.data) = Len(sv.blob)
    /\ sv.data[7].v # 0
    /\ sv.result = "err"
    /\ Machine(sv.src) # Machine(sv.before)
    /\ gb = sv.before

\* C4 as stated: for every byte string load is all-or-nothing; it returns
\* (Ok or an error, never aborting part-way), and when it did not return
\* Ok the emulator is as it was before the call.
C4_AllOrNothing ==
    sv.phase = "loaded" =>
        /\ sv.result \in {"ok", "err"}
        /\ sv.result # "ok" => gb = sv.before

(***************************************************************************)
(* Invariants of the PPU, over the states SpecPpu leaves after Ppu::tick.  *)
(***************************************************************************)
\* C11: after every PPU tick LY is in 0..153 and the mode is VBlank exactly
\* when LY >= 144.
C11_LyMode ==
    /\ pp.ppu.ly \in 0..153
    /\ pp.ppu.mode = "VBlank" <=> pp.ppu.ly >= 144

\* C11 witness: the last line of VBlank, reached by ticking through a frame.
C11_Witness ==
    /\ pp.requests >= 1
    /\ pp.ppu.ly = 153
    /\ pp.ppu.mode = "VBlank"

(***************************************************************************)
(* SpecFifo: the pixel pipeline over the first scanlines, ticked one or    *)
(* four T-cycles at a time, with the window and sprites enabled, a fine    *)
(* scroll to discard, overlapping sprites on the line, and the program     *)
(* rewriting LCDC in mid-line.  pp holds the PPU, OAM and the number of    *)
(* LCDC writes.                                                            *)
(***************************************************************************)
MaxFifoLines == 1    \* scanlines drawn per behaviour
MaxFifoWrites == 1   \* LCDC writes per behaviour

\* Ten sprites on lines 0..7, two pixels apart from x = 8.
FifoSprites ==
    [a \in {4 * i : i \in 0..9} \cup {4 * i + 1 : i \in 0..9}
        |-> IF a % 4 = 0 THEN 16 ELSE 8 + 2 * (a \div 4)]

\* LCDC with the LCD and BG on, and sprites (bit 1) and window (bit 5)
\* each on or off.
FifoLcdc == {145, 147, 177, 179}

\* The pixels at which the program writes LCDC.
FifoWriteAt == {3, 20}

InitFifo ==
    /\ dev = Unused
    /\ \E scx \in {0, 5}, wx \in {7, 30} :
          pp = [ppu |-> [PpuDefault EXCEPT !.lcdc = 179, !.scx = scx,
                                           !.wx = wx],
                oam |-> FifoSprites, writes |-> 0]
    /\ gb = Unused
    /\ trace = <<>>
    /\ keys = 0
    /\ frame = Unused
    /\ sv = Unused

\* Ppu::tick for one or four T-cycles.
FifoTick ==
    /\ pp.ppu.ly < MaxFifoLines
    /\ \E t_cycles \in {1, 4} :
          pp' = [pp EXCEPT !.ppu = PpuTick(@, t_cycles, pp.oam)]
    /\ UNCHANGED <<gb, trace, keys, frame, sv, dev>>

\* A write of LCDC while the line is drawn (write_io, 0xFF40).
FifoWriteLcdc ==
    /\ pp.writes < MaxFifoWrites
    /\ pp.ppu.mode = "Drawing"
    /\ pp.ppu.pixel_x \in FifoWriteAt
    /\ \E lcdc \in FifoLcdc \ {pp.ppu.lcdc} :
          pp' = [pp EXCEPT !.ppu.lcdc = lcdc, !.writes = @ + 1]
    /\ UNCHANGED <<gb, trace, keys, frame, sv, dev>>

NextFifo == FifoTick \/ FifoWriteLcdc

SpecFifo == InitFifo /\ [][NextFifo]_vars

\* C12: in every PPU state both FIFOs have a length of at most 16 and a head
\* in 0..15, and no pop was made on an empty FIFO (it would leave the u8
\* length wrapped to 255), across window activation, SCX discard and sprite
\* mixing.
C12_FifoBounds ==
    \A f \in {pp.ppu.bg_fifo, pp.ppu.obj_fifo} :
        f.len \in 0..16 /\ f.head \in 0..15

\* C12 witness: the window was activated after pixels were discarded and
\* popped, and sprite pixels are waiting in the OBJ FIFO.
C12_Witness ==
    /\ pp.ppu.window_active
    /\ pp.ppu.scx = 5
    /\ pp.ppu.scx_discard = 0
    /\ pp.ppu.bg_fifo.len > 0
    /\ pp.ppu.bg_fifo.head > 0
    /\ pp.ppu.obj_fifo.len > 0

(***************************************************************************)
(* SpecApu: the APU driven on its own by register writes, frame-sequencer  *)
(* clocks and T-cycle ticks.  dev.last records the operation just made.    *)
(***************************************************************************)
MaxApuOps == 3      \* APU operations explored per behaviour

NR52 == 65318

\* The registers written: NR10..NR14, NR22, NR24, NR30, NR34, NR42, NR44
\* and NR52.
ApuAddresses ==
    {65296, 65297, 65298, 65299, 65300, 65303, 65305, 65306, 65310, 65313,
     65315, NR52}

\* The bytes written: DAC off, DAC on, sweep shift 1, length 1, length
\* enable, trigger, trigger at frequency 0x7xx, trigger with length enable.
ApuValues == {0, 8, 17, 63, 64, 128, 135, 192}

\* The APU after power-on, and after a program has also set up a negating
\* sweep (NR10 = 0x19) and the low frequency byte (NR13 = 0xFF).
ApuPowered == WriteRegister(ApuDefault, NR52, 128)
ApuSweepSetUp ==
    WriteRegister(WriteRegister(ApuPowered, 65296, 25), 65299, 255)

InitApu ==
    /\ \E apu \in {ApuDefault, ApuPowered, ApuSweepSetUp} :
          dev = [apu |-> apu, ops |-> 0,
                 last |-> [kind |-> "none", address |-> 0, val |-> 0]]
    /\ gb = Unused
    /\ trace = <<>>
    /\ keys = 0
    /\ frame = Unused
    /\ pp = Unused
    /\ sv = Unused

\* A guest write to an APU register.
ApuWrite ==
    /\ dev.ops < MaxApuOps
    /\ \E address \in ApuAddresses, val \in ApuValues :
          dev' = [apu |-> WriteRegister(dev.apu, address, val),
                  ops |-> dev.ops + 1,
                  last |-> [kind |-> "write", address |-> address,
                            val |-> val]]
    /\ UNCHANGED <<gb, trace, keys, frame, pp, sv>>

\* A falling edge of DIV bit 12.
ApuClock ==
    /\ dev.ops < MaxApuOps
    /\ dev' = [apu |-> ClockFrameSequencer(dev.apu), ops |-> dev.ops + 1,
               last |-> [kind |-> "clock", address |-> 0,
                         val |-> dev.apu.frame_step]]
    /\ UNCHANGED <<gb, trace, keys, frame, pp, sv>>

\* One T-cycle.
ApuTick ==
    /\ dev.ops < MaxApuOps
    /\ dev' = [apu |-> TickOneTCycle(dev.apu), ops |-> dev.ops + 1,
               last |-> [kind |-> "tick", address |-> 0, val |-> 0]]
    /\ UNCHANGED <<gb, trace, keys, frame, pp, sv>>

NextApu == ApuWrite \/ ApuClock \/ ApuTick

SpecApu == InitApu /\ [][NextApu]_vars

\* The last operation was a write with the trigger bit to NRn4 while the
\* APU was powered.
TriggeredLast(n) ==
    /\ dev.last.kind = "write"
    /\ dev.last.address = 65300 + (5 * (n - 1))
    /\ Bit(dev.last.val, 7) = 1
    /\ dev.apu.power

\* C13: after any sequence of APU register writes, frame-sequencer clocks,
\* T-cycle ticks and power toggles, each of the channels 1, 2 and 4 is
\* disabled whenever its DAC is off; in particular a channel triggered while
\* its DAC is off is left disabled.
C13_DacGate ==
    \A n \in {1, 2, 4} :
        ~dev.apu.channel[n].dac_enabled => ~dev.apu.channel[n].enabled

\* Each of the three channels is triggered with its DAC off somewhere, and
\* a channel that was running is silenced by switching its DAC off.
C13_Witness ==
    /\ TriggeredLast(4)
    /\ ~dev.apu.channel[4].dac_enabled
    /\ ~dev.apu.channel[4].enabled
    /\ dev.apu.channel[4].length_counter = 64
    /\ dev.apu.channel[1].enabled
    /\ dev.apu.channel[1].dac_enabled

(***************************************************************************)
(* SpecMbc: an MBC1 cartridge driven on its own by register writes and ROM *)
(* reads.  Every bank of the image starts with bytes unique to that bank,  *)
(* so the byte a read returns tells the bank it came from.  dev.last is the  *)
(* last register write, dev.got the read made since (if any).              *)
(***************************************************************************)
MaxMbcOps == 3      \* cartridge operations explored per behaviour

\* Image sizes: 32 KiB, 48 KiB, 128 KiB, 512 KiB and 1 MiB.
RomLens == {32768, 49152, 131072, 524288, 1048576}

\* Offsets within a bank at which the image holds a byte of its own.
BankOffsets == {0, 1, 16383}

OffsetIndex(k) == IF k = 0 THEN 1 ELSE IF k = 1 THEN 2 ELSE 3

\* The image: byte 3b + i at the i-th marked offset of bank b, 0 elsewhere.
RomImage(rom_len) ==
    [a \in { (b * BankSize) + k :
                 b \in 0..((rom_len \div BankSize) - 1), k \in BankOffsets }
       |-> (3 * (a \div BankSize)) + OffsetIndex(a % BankSize)]

\* The addresses and bytes of the register writes.
MbcWriteAddresses == {0, 8192, 16383, 16384, 24576}
MbcWriteValues == {0, 1, 3, 8, 10, 32, 63}

NoAccess == [kind |-> "none", address |-> 0, value |-> 0]

InitMbc ==
    /\ \E rom_len \in RomLens :
          dev = [cart |-> Mbc1CartridgeOf(RomImage(rom_len), rom_len, 0),
                 ops |-> 0, last |-> NoAccess, got |-> NoAccess]
    /\ gb = Unused
    /\ trace = <<>>
    /\ keys = 0
    /\ frame = Unused
    /\ pp = Unused
    /\ sv = Unused

\* A guest write to 0x0000-0x7FFF.
MbcWrite ==
    /\ dev.ops < MaxMbcOps
    /\ \E address \in MbcWriteAddresses, value \in MbcWriteValues :
          dev' = [cart |-> WriteMbc1(dev.cart, address, value),
                  ops |-> dev.ops + 1,
                  last |-> [kind |-> "write", address |-> address,
                            value |-> value],
                  got |-> NoAccess]
    /\ UNCHANGED <<gb, trace, keys, frame, pp, sv>>

\* A guest read of 0x4000 + k; the byte returned is recorded.
MbcRead ==
    /\ dev.got.kind = "none"
    /\ \E k \in BankOffsets :
          dev' = [dev EXCEPT
                     !.got = [kind |-> "read", address |-> BankSize + k,
                              value |-> CartridgeRead(dev.cart, BankSize + k)]]
    /\ UNCHANGED <<gb, trace, keys, frame, pp, sv>>

NextMbc == MbcWrite \/ MbcRead

SpecMbc == InitMbc /\ [][NextMbc]_vars

\* The byte of the image at offset k of bank b.
BankByte(b, k) == Rd(dev.cart.rom, (b * BankSize) + k)

\* The bank a byte just read from 0x4000-0x7FFF came from.
BankRead == (dev.got.value - OffsetIndex(dev.got.address - BankSize)) \div 3

\* C14 as stated: the bank a read in 0x4000-0x7FFF is served from, after the
\* zero-forcing and the reduction modulo the number of banks, has nonzero
\* low five bits.
C14_Original ==
    dev.got.kind = "read" => BankRead % 32 # 0

\* C14: the bank number formed from ram_bank and rom_bank has nonzero low
\* five bits, so the re-forcing of bank 0 to 1 never changes it; a read in
\* 0x4000-0x7FFF is served from that number modulo the number of banks, and
\* the bank served has nonzero low five bits when the number of banks is a
\* multiple of 32.
C14_BankUsed ==
    LET raw == (dev.cart.ram_bank * 32) + dev.cart.rom_bank
    IN  /\ raw % 32 # 0
        /\ Mbc1Forced(dev.cart) = raw
        /\ dev.got.kind = "read" =>
              /\ dev.got.value < 255
              /\ BankRead = raw % NumRomBanks(dev.cart)
              /\ NumRomBanks(dev.cart) % 32 = 0 => BankRead % 32 # 0

\* With ram_bank 1 a read of a 64-bank image is served from bank 33.
C14_Witness ==
    /\ dev.got.kind = "read"
    /\ NumRomBanks(dev.cart) = 64
    /\ dev.cart.ram_bank = 1
    /\ BankRead = 33

\* C15: after any MBC1 register writes rom_bank is in 1..31 and ram_bank in
\* 0..3; a write to 0x2000-0x3FFF with low five bits 0 stores bank 1, and on
\* an 8-bank image with ram_bank 0 a read of 0x4000 + k then returns the
\* image's byte 0x4000 + k, which differs from byte k.
C15_ZeroSelectsBankOne ==
    /\ dev.cart.rom_bank \in 1..31
    /\ dev.cart.ram_bank \in 0..3
    /\ ( /\ dev.last.kind = "write"
         /\ dev.last.address \in 8192..16383
         /\ dev.last.value % 32 = 0 ) => dev.cart.rom_bank = 1
    /\ ( /\ dev.got.kind = "read"
         /\ dev.cart.rom_bank = 1
         /\ dev.cart.ram_bank = 0
         /\ dev.cart.rom_len = 131072 ) =>
            /\ dev.got.value = Rd(dev.cart.rom, dev.got.address)
            /\ dev.got.value # Rd(dev.cart.rom, dev.got.address - BankSize)

\* 0x20 was written to 0x2000 of the 8-bank image after two other writes,
\* and the read that follows returns a byte of bank 1.
C15_Witness ==
    /\ dev.got.kind = "read"
    /\ dev.ops = 3
    /\ dev.last.address = 8192
    /\ dev.last.value = 32
    /\ dev.cart.rom_len = 131072
    /\ dev.cart.ram_bank = 0
    /\ dev.got.value = BankByte(1, dev.got.address - BankSize)

(***************************************************************************)
(* SpecBus: the memory bus driven on its own by guest reads and writes.    *)
(* dev.before is the bus before the last access and dev.last that access   *)
(* (for a read, value is the byte returned).                               *)
(***************************************************************************)
MaxBusOps == 3      \* bus accesses explored per behaviour

\* The cartridges: no controller; MBC1 with a 16-KiB image and no RAM; MBC1
\* with a 32-KiB image and 8 KiB of RAM.
BusCartridges ==
    {CartridgeOf(RomImage(RomSize)),
     Mbc1CartridgeOf(RomImage(BankSize), BankSize, 0),
     Mbc1CartridgeOf(RomImage(RomSize), RomSize, RamBankSize)}

\* The addresses accessed: 0x0000, 0x7FFF, 0xA000, 0xC000, 0xFEA0, 0xFF01,
\* 0xFF02, 0xFF03, 0xFF04, 0xFF0E, 0xFF42, 0xFF4C and 0xFF7F.
BusAddresses ==
    {0, 32767, 40960, 49152, 65184, 65281, 65282, 65283, 65284, 65294,
     65346, 65356, 65407}

BusValues == {0, 10, 18, 128, 129}

InitBus ==
    /\ \E cart \in BusCartridges :
          dev = [bus |-> BusNew(cart), before |-> BusNew(cart), ops |-> 0,
                 last |-> NoAccess]
    /\ gb = Unused
    /\ trace = <<>>
    /\ keys = 0
    /\ frame = Unused
    /\ pp = Unused
    /\ sv = Unused

\* MemoryBus::read_byte called by the CPU.
BusRead ==
    /\ dev.ops < MaxBusOps
    /\ \E address \in BusAddresses :
          dev' = [bus |-> ReadByte(dev.bus, address).bus,
                  before |-> dev.bus,
                  ops |-> dev.ops + 1,
                  last |-> [kind |-> "read", address |-> address,
                            value |-> ReadByte(dev.bus, address).value]]
    /\ UNCHANGED <<gb, trace, keys, frame, pp, sv>>

\* MemoryBus::write_byte called by the CPU.
BusWrite ==
    /\ dev.ops < MaxBusOps
    /\ \E address \in BusAddresses, byte \in BusValues :
          dev' = [bus |-> WriteByte(dev.bus, address, byte),
                  before |-> dev.bus,
                  ops |-> dev.ops + 1,
                  last |-> [kind |-> "write", address |-> address,
                            value |-> byte]]
    /\ UNCHANGED <<gb, trace, keys, frame, pp, sv>>

NextBus == BusRead \/ BusWrite

SpecBus == InitBus /\ [][NextBus]_vars

\* Address has no mapped device on bus b (reading selects the read side:
\* a write below 0x8000 goes to the cartridge's controller).
Unmapped(b, address, reading) ==
    \/ address \in 65184..65279
    \/ address \in {65283} \cup (65288..65294) \cup (65356..65407)
    \/ /\ address \in 40960..49151
       /\ \/ b.cartridge.mbc = "NoMbc"
          \/ /\ b.cartridge.mbc = "Mbc1"
             /\ (~b.cartridge.ram_enabled \/ b.cartridge.ram_len = 0)
    \/ /\ address < 32768
       /\ (b.cartridge.mbc = "NoMbc" \/ reading)
       /\ address >= (IF b.cartridge.mbc = "NoMbc" THEN RomSize
                      ELSE b.cartridge.rom_len)

\* C16: a guest read of an address with no mapped device returns 0xFF, and
\* a guest write to one changes nothing a later read can observe: every
\* address reads as it would had only the write's four T-cycles passed.
C16_UnmappedAccess ==
    /\ ( dev.last.kind = "read"
         /\ Unmapped(dev.before, dev.last.address, TRUE) )
          => dev.last.value = 255
    /\ ( dev.last.kind = "write"
         /\ Unmapped(dev.before, dev.last.address, FALSE) )
          => \A a \in BusAddresses :
                ReadByteNoTick(dev.bus, a)
                    = ReadByteNoTick(TickMCycle(dev.before), a)

\* The timer and the APU are 4 T-cycles past where the last access found
\* them (a write to DIV clears the counter before the tick).
TimerApuAdvanced ==
    /\ dev.bus.timer.internal_counter =
           ( (IF dev.last.kind = "write" /\ dev.last.address = 65284
              THEN 0 ELSE dev.before.timer.internal_counter) + 4 ) % 65536
    /\ ApuCycles(dev.bus.apu) =
           ApuCycles(dev.before.apu) + 4 * dev.before.apu.sample_rate

\* The PPU as the access itself leaves it (a write to SCY stores the byte).
PpuAfterAccess ==
    IF dev.last.kind = "write" /\ dev.last.address = 65346
    THEN [dev.before.ppu EXCEPT !.scy = dev.last.value]
    ELSE dev.before.ppu

\* C17 as stated: every bus read and every bus write advances the timer,
\* the APU and the PPU by exactly 4 T-cycles before it returns.
C17_Original ==
    dev.last.kind # "none" =>
        /\ TimerApuAdvanced
        /\ dev.bus.ppu = PpuTick(PpuAfterAccess, 4, dev.bus.oam)

\* C17 amended: every bus read and every bus write advances the timer and
\* the APU by exactly 4 T-cycles before it returns, and does not advance
\* the PPU.
C17_TimerApuOnly ==
    dev.last.kind # "none" =>
        /\ TimerApuAdvanced
        /\ dev.bus.ppu = PpuAfterAccess

\* Three accesses, the last a read: the timer stands at 12 T-cycles while the
\* PPU is still at dot 0 of its first line.
C17_Witness ==
    /\ dev.last.kind = "read"
    /\ dev.bus.timer.internal_counter = 12
    /\ dev.bus.ppu.mode_clock = 0
    /\ PpuTick(dev.before.ppu, 4, dev.bus.oam).mode_clock = 4

\* The record of the run_step that produced gb, if no key event followed it
\* (a key event changes the joypad only).
LastStep == trace[Len(trace)]

MaxCycles == 65544
MaxDivWrites == 1
MaxAfterWrite == 1

DIV == 65284

TickSizes == {4, 8}
DivValues == {0, 171}

RECURSIVE WriteRegisters(_, _)
WriteRegisters(apu, writes) ==
    IF writes = <<>> THEN apu
    ELSE WriteRegisters(WriteRegister(apu, writes[1][1], writes[1][2]),
                        Tail(writes))

\* The APU powered on, all four channels triggered with their length
\* counters enabled: channel 1 with sweep period 1, shift 1 and a falling
\* envelope of period 1, channel 2 with a rising envelope, channel 4 with a
\* falling envelope of period 2.
ApuPlaying ==
    WriteRegisters(ApuDefault,
        << <<NR52, 128>>,
           <<65296, 17>>, <<65297, 60>>, <<65298, 241>>, <<65299, 64>>,
           <<65300, 192>>,
           <<65302, 62>>, <<65303, 9>>, <<65305, 192>>,
           <<65306, 128>>, <<65307, 253>>, <<65310, 192>>,
           <<65312, 61>>, <<65313, 242>>, <<65315, 192>> >>)

InitTimer ==
    /\ \E apu \in {ApuDefault, ApuPlaying} :
          dev = [timer |-> TimerDefault, apu |-> apu,
                 before |-> [timer |-> TimerDefault, apu |-> apu],
                 cycles |-> 0, writes |-> 0, after |-> 0,
                 last |-> [kind |-> "none", n |-> 0]]
    /\ gb = Unused
    /\ trace = <<>>
    /\ keys = 0
    /\ frame = Unused
    /\ pp = Unused
    /\ sv = Unused

\* Timer::tick(n, apu).
TimerAdvance ==
    /\ \E n \in TickSizes :
          /\ dev.cycles + n <= MaxCycles
          /\ dev.writes = 0 \/ dev.after < MaxAfterWrite
          /\ \E r \in {TimerTick(dev.timer, dev.apu, n)} :
                dev' = [dev EXCEPT
                           !.timer = r.timer, !.apu = r.apu,
                           !.before = [timer |-> dev.timer, apu |-> dev.apu],
                           !.cycles = @ + n,
                           !.after = IF dev.writes > 0 THEN @ + 1 ELSE @,
                           !.last = [kind |-> "tick", n |-> n]]
    /\ UNCHANGED <<gb, trace, keys, frame, pp, sv>>

\* Timer::write(0xFF04, byte, apu).
DivWrite ==
    /\ dev.writes < MaxDivWrites
    /\ \E byte \in DivValues :
          \E r \in {TimerWrite([timer |-> dev.timer, apu |-> dev.apu],
                               DIV, byte)} :
             dev' = [dev EXCEPT
                        !.timer = r.timer, !.apu = r.apu,
                        !.before = [timer |-> dev.timer, apu |-> dev.apu],
                        !.writes = @ + 1,
                        !.last = [kind |-> "write", n |-> byte]]
    /\ UNCHANGED <<gb, trace, keys, frame, pp, sv>>

NextTimer == TimerAdvance \/ DivWrite

SpecTimer == InitTimer /\ [][NextTimer]_vars

\* C19: a write of any value to 0xFF04 sets the internal counter to 0, so
\* that DIV reads 0, and advances the frame-sequencer step by exactly 1 if
\* bit 12 of the counter was 1 before the write and not at all otherwise.
C19_DivReset ==
    dev.last.kind = "write" =>
        /\ dev.timer.internal_counter = 0
        /\ TimerRead(dev.timer, DIV) = 0
        /\ dev.apu.frame_step =
               IF (dev.before.timer.internal_counter \div 4096) % 2 = 1
               THEN (dev.before.apu.frame_step + 1) % 8
               ELSE dev.before.apu.frame_step

\* DIV written with the counter at 0x1FFC, bit 12 set: the counter is
\* cleared and the sequencer moves from step 0 to step 1.
C19_Witness ==
    /\ dev.last.kind = "write"
    /\ dev.before.timer.internal_counter = 8188
    /\ dev.timer.internal_counter = 0
    /\ dev.before.apu.frame_step = 0
    /\ dev.apu.frame_step = 1

\* What the frame sequencer can change: the APU without the state that
\* tick_one_t_cycle advances (frequency timers, positions, LFSR, samples).
SequencerView(apu) ==
    [apu EXCEPT
        !.channel = [n \in 1..4 |->
            [@[n] EXCEPT !.frequency_timer = 0, !.position = 0, !.lfsr = 0,
                         !.wave_just_read = FALSE]],
        !.sample_timer = 0,
        !.samples = 0]

\* One clock of the frame sequencer as the steps are laid out: length
\* counters of all four channels on steps 0, 2, 4 and 6, the sweep of
\* channel 1 on steps 2 and 6, the envelopes of channels 1, 2 and 4 on
\* step 7, then the step advances modulo 8.
StepActions(apu) ==
    [apu EXCEPT
        !.channel = [n \in 1..4 |->
            Only({ IF apu.frame_step = 7 /\ n \in {1, 2, 4}
                   THEN ClockEnvelope(ch) ELSE ch :
                   ch \in { IF apu.frame_step \in {2, 6} /\ n = 1
                            THEN ClockSweep(ClockLength(@[n]))
                            ELSE IF apu.frame_step \in {0, 2, 4, 6}
                                 THEN ClockLength(@[n])
                                 ELSE @[n] } })],
        !.frame_step = (@ + 1) % 8]

\* The last tick took the T-cycle count across a multiple of 8,192.
CrossedFrameClock ==
    dev.cycles \div 8192 # (dev.cycles - dev.last.n) \div 8192

\* C20: with no write to DIV the frame sequencer is clocked exactly once per
\* 8,192 T-cycles, when bit 12 of the counter falls; each clock performs
\* the actions of the current step (lengths of all four channels on steps
\* 0, 2, 4, 6, the sweep of channel 1 on 2 and 6, the envelopes of channels
\* 1, 2, 4 on 7, nothing else) and then advances the step modulo 8.
C20_FrameSequencer ==
    dev.writes = 0 /\ dev.last.kind = "tick" =>
        /\ dev.apu.frame_step = (dev.cycles \div 8192) % 8
        /\ SequencerView(dev.apu) =
               SequencerView(IF CrossedFrameClock
                             THEN StepActions(dev.before.apu)
                             ELSE dev.before.apu)

\* The eighth clock, 65,536 T-cycles after power-on with no DIV write: step
\* 7 lowers the volume of channel 1 by one and wraps the step to 0, after
\* the lengths were clocked four times and the sweep twice.
C20_Witness ==
    /\ dev.writes = 0
    /\ dev.cycles = 65536
    /\ CrossedFrameClock
    /\ dev.before.apu.frame_step = 7
    /\ dev.apu.frame_step = 0
    /\ dev.apu.channel[1].volume = 14
    /\ dev.before.apu.channel[1].volume = 15
    /\ dev.apu.channel[1].length_counter = 0
    /\ dev.apu.channel[2].length_counter = 0
    /\ dev.apu.channel[1].sweep_shadow_frequency = 144
    /\ ~dev.apu.channel[1].enabled

(***************************************************************************)
(* Specification SpecWave: the APU driven on its own through wave RAM.  It *)
(* starts powered on with three bytes stored in wave RAM and the DAC of    *)
(* channel 3 on, the channel idle or triggered at frequency 2047 (a new    *)
(* wave position every 2 T-cycles).  advanced tells whether the most       *)
(* recent T-cycle moved the wave position; last records the last access    *)
(* with the channel and the wave RAM as the access found them.             *)
(***************************************************************************)
MaxWaveOps == 3
MaxWaveTicks == 10

NR30 == 65306
NR34 == 65310
WaveRamBase == 65328

WaveOffsets == {0, 1, 15}
WaveValues == {0, 154}
WaveControls == {<<NR30, 0>>, <<NR30, 128>>, <<NR34, 135>>}

WaveLoaded ==
    WriteRegisters(ApuDefault,
        << <<NR52, 128>>, <<WaveRamBase, 18>>, <<WaveRamBase + 1, 52>>,
           <<WaveRamBase + 15, 86>>, <<NR30, 128>>, <<65309, 255>> >>)

WavePlaying == WriteRegister(WaveLoaded, NR34, 135)

InitWave ==
    /\ \E apu \in {WaveLoaded, WavePlaying} :
          dev = [apu |-> apu, ops |-> 0, ticks |-> 0, advanced |-> FALSE,
                 last |-> [kind |-> "none", offset |-> 0, value |-> 0,
                           enabled |-> FALSE, window |-> FALSE,
                           ram |-> EmptyMem]]
    /\ gb = Unused
    /\ trace = <<>>
    /\ keys = 0
    /\ frame = Unused
    /\ pp = Unused
    /\ sv = Unused

\* Apu::read_register(0xFF30 + offset).
WaveRead ==
    /\ dev.ops < MaxWaveOps
    /\ \E offset \in WaveOffsets :
          dev' = [dev EXCEPT
                     !.ops = @ + 1,
                     !.last = [kind |-> "read", offset |-> offset,
                               value |-> ReadRegister(dev.apu,
                                                      WaveRamBase + offset),
                               enabled |-> dev.apu.channel[3].enabled,
                               window |-> dev.advanced,
                               ram |-> dev.apu.wave_ram]]
    /\ UNCHANGED <<gb, trace, keys, frame, pp, sv>>

\* Apu::write_register(0xFF30 + offset, val).
WaveWrite ==
    /\ dev.ops < MaxWaveOps
    /\ \E offset \in WaveOffsets, val \in WaveValues :
          dev' = [dev EXCEPT
                     !.apu = WriteRegister(@, WaveRamBase + offset, val),
                     !.ops = @ + 1,
                     !.last = [kind |-> "write", offset |-> offset,
                               value |-> val,
                               enabled |-> dev.apu.channel[3].enabled,
                               window |-> dev.advanced,
                               ram |-> dev.apu.wave_ram]]
    /\ UNCHANGED <<gb, trace, keys, frame, pp, sv>>

\* Apu::write_register to NR30 or NR34: DAC off, DAC on, trigger.
WaveControl ==
    /\ dev.ops < MaxWaveOps
    /\ \E w \in WaveControls :
          dev' = [dev EXCEPT
                     !.apu = WriteRegister(@, w[1], w[2]),
                     !.ops = @ + 1,
                     !.last = [kind |-> "control", offset |-> 0,
                               value |-> w[2],
                               enabled |-> dev.apu.channel[3].enabled,
                               window |-> dev.advanced,
                               ram |-> dev.apu.wave_ram]]
    /\ UNCHANGED <<gb, trace, keys, frame, pp, sv>>

\* Apu::tick_one_t_cycle.
WaveTick ==
    /\ dev.ticks < MaxWaveTicks
    /\ \E apu \in {TickOneTCycle(dev.apu)} :
          dev' = [dev EXCEPT
                     !.apu = apu,
                     !.ticks = @ + 1,
                     !.advanced = apu.channel[3].position
                                      # dev.apu.channel[3].position,
                     !.last = [@ EXCEPT !.kind = "tick"]]
    /\ UNCHANGED <<gb, trace, keys, frame, pp, sv>>

NextWave == WaveRead \/ WaveWrite \/ WaveControl \/ WaveTick

SpecWave == InitWave /\ [][NextWave]_vars

SB == 65281
SC == 65282

\* C22: a write to 0xFF02 with bits 7 and 0 both set completes the transfer
\* within the write (SB then reads 0xFF, bit 7 of SC reads 0, IF bit 3 is
\* set); a write to 0xFF02 without both bits leaves SB and IF bit 3 as they
\* were; a write to SB is read back, and no other access changes SB.
C22_SerialTransfer ==
    dev.last.kind # "none" =>
        CASE dev.last.kind = "write" /\ dev.last.address = SC
                 /\ Bit(dev.last.value, 7) = 1 /\ Bit(dev.last.value, 0) = 1 ->
                /\ ReadByteNoTick(dev.bus, SB) = 255
                /\ Bit(ReadByteNoTick(dev.bus, SC), 7) = 0
                /\ Bit(dev.bus.if_register, 3) = 1
          [] dev.last.kind = "write" /\ dev.last.address = SB ->
                ReadByteNoTick(dev.bus, SB) = dev.last.value
          [] OTHER ->
                /\ ReadByteNoTick(dev.bus, SB) = ReadByteNoTick(dev.before, SB)
                /\ Bit(dev.bus.if_register, 3)
                       = Bit(dev.before.if_register, 3)

\* SB holds 0x12 when 0x81 is written to SC: SB reads 0xFF, SC reads 0x01
\* and the serial interrupt is requested.
C22_Witness ==
    /\ dev.last.kind = "write"
    /\ dev.last.address = SC
    /\ dev.last.value = 129
    /\ ReadByteNoTick(dev.before, SB) = 18
    /\ Bit(dev.before.if_register, 3) = 0
    /\ ReadByteNoTick(dev.bus, SB) = 255
    /\ ReadByteNoTick(dev.bus, SC) = 1
    /\ Bit(dev.bus.if_register, 3) = 1

(***************************************************************************)
(* Specification SpecJoypad: the joypad driven on its own by the guest     *)
(* (writes of the select register, reads of 0xFF00), by the host (key_down *)
(* and key_up, issued every frame for every key by update_joypad) and by   *)
(* run_step, which moves the interrupt flag into IF bit 4.  if4 is IF bit  *)
(* 4; the guest's handler clears it.                                       *)
(***************************************************************************)
MaxJoyOps == 4

\* Right, Down, A and Start.
JoyKeys == {0, 3, 4, 7}
JoySelects == {0, 16, 32, 48, 255}

InitJoypad ==
    /\ dev = [joypad |-> JoypadDefault, before |-> JoypadDefault,
              if4 |-> FALSE, ops |-> 0,
              last |-> [kind |-> "none", key |-> 0, value |-> 0]]
    /\ gb = Unused
    /\ trace = <<>>
    /\ keys = 0
    /\ frame = Unused
    /\ pp = Unused
    /\ sv = Unused

\* Joypad::write.
JoyWrite ==
    /\ dev.ops < MaxJoyOps
    /\ \E byte \in JoySelects :
          dev' = [dev EXCEPT
                     !.joypad = JoypadWrite(@, byte), !.before = dev.joypad,
                     !.ops = @ + 1,
                     !.last = [kind |-> "write", key |-> 0, value |-> byte]]
    /\ UNCHANGED <<gb, trace, keys, frame, pp, sv>>

\* Joypad::read.
JoyRead ==
    /\ dev.ops < MaxJoyOps
    /\ dev' = [dev EXCEPT
                  !.before = dev.joypad, !.ops = @ + 1,
                  !.last = [kind |-> "read", key |-> 0,
                            value |-> JoypadRead(dev.joypad)]]
    /\ UNCHANGED <<gb, trace, keys, frame, pp, sv>>

\* Joypad::key_down.
JoyKeyDown ==
    /\ dev.ops < MaxJoyOps
    /\ \E key \in JoyKeys :
          dev' = [dev EXCEPT
                     !.joypad = KeyDown(@, key), !.before = dev.joypad,
                     !.ops = @ + 1,
                     !.last = [kind |-> "key_down", key |-> key, value |-> 0]]
    /\ UNCHANGED <<gb, trace, keys, frame, pp, sv>>

\* Joypad::key_up.
JoyKeyUp ==
    /\ dev.ops < MaxJoyOps
    /\ \E key \in JoyKeys :
          dev' = [dev EXCEPT
                     !.joypad = KeyUp(@, key), !.before = dev.joypad,
                     !.ops = @ + 1,
                     !.last = [kind |-> "key_up", key |-> key, value |-> 0]]
    /\ UNCHANGED <<gb, trace, keys, frame, pp, sv>>

\* The joypad part of run_step: a raised flag becomes IF bit 4.
JoyCollect ==
    /\ dev.ops < MaxJoyOps
    /\ dev' = [dev EXCEPT
                  !.joypad.interrupt = FALSE, !.before = dev.joypad,
                  !.if4 = @ \/ dev.joypad.interrupt,
                  !.ops = @ + 1,
                  !.last = [kind |-> "collect", key |-> 0, value |-> 0]]
    /\ UNCHANGED <<gb, trace, keys, frame, pp, sv>>

\* The interrupt handler of the guest runs: IF bit 4 is cleared.
JoyService ==
    /\ dev.ops < MaxJoyOps
    /\ dev.if4
    /\ dev' = [dev EXCEPT
                  !.if4 = FALSE, !.before = dev.joypad, !.ops = @ + 1,
                  !.last = [kind |-> "service", key |-> 0, value |-> 0]]
    /\ UNCHANGED <<gb, trace, keys, frame, pp, sv>>

NextJoypad ==
    JoyWrite \/ JoyRead \/ JoyKeyDown \/ JoyKeyUp \/ JoyCollect \/ JoyService

SpecJoypad == InitJoypad /\ [][NextJoypad]_vars

\* Line i (0..3) of a row is pressed: the active-low bit is 0.
Pressed(row, i) == Bit(row, i) = 0

\* The key of JoyKeys is held in joypad j.
Held(j, key) ==
    IF key < 4 THEN Pressed(j.dpad, key) ELSE Pressed(j.buttons, key - 4)

\* C23: a read of 0xFF00 returns 1s in all four bits of the high nibble
\* and, in the low nibble, the active-low lines of the row chosen by the
\* select bits (buttons when bit 5 was written 0, directions when bit 4 was
\* written 0), a line reading 0 only if a key of a selected row is pressed.
C23_JoypadRead ==
    dev.last.kind = "read" =>
        /\ dev.last.value \div 16 = 15
        /\ (Bit(dev.joypad.select, 5) = 0 /\ Bit(dev.joypad.select, 4) = 1)
               => dev.last.value % 16 = dev.joypad.buttons
        /\ (Bit(dev.joypad.select, 4) = 0 /\ Bit(dev.joypad.select, 5) = 1)
               => dev.last.value % 16 = dev.joypad.dpad
        /\ \A i \in 0..3 :
              Bit(dev.last.value, i) = 0 =>
                  \/ Bit(dev.joypad.select, 5) = 0
                         /\ Pressed(dev.joypad.buttons, i)
                  \/ Bit(dev.joypad.select, 4) = 0
                         /\ Pressed(dev.joypad.dpad, i)

\* C24: a key_down for a key that was released raises the interrupt flag,
\* a key_down for a key that is already held raises no further interrupt
\* (the flag stays as it was), and key_up never raises it.
C24_KeyDownEdge ==
    /\ (dev.last.kind = "key_down" /\ ~Held(dev.before, dev.last.key))
           => dev.joypad.interrupt
    /\ (dev.last.kind = "key_down" /\ Held(dev.before, dev.last.key))
           => dev.joypad.interrupt = dev.before.interrupt
    /\ dev.last.kind = "key_up"
           => dev.joypad.interrupt = dev.before.interrupt

(***************************************************************************)
(* Specification SpecScan: the PPU with the LCD on, ticked one T-cycle at  *)
(* a time through a frame and into the next, from several register and OAM *)
(* set-ups.  Ppu::tick(n) is n passes of the same loop, so the states      *)
(* between the T-cycles are those a longer tick goes through.  After each  *)
(* tick the raised flags are moved into IF as run_step and run_frame do.   *)
(*                                                                         *)
(* dev.line counts the T-cycles the current line has spent in each mode    *)
(* and lists its modes in order; dev.done is that record for the line that *)
(* ended last (ly = -1 before the first), dev.before the PPU before the    *)
(* last tick and dev.if_before the IF bits before the last action.         *)
(*                                                                         *)
(* The PPU record above keeps the two FIFOs' lengths only.  dev.bg and     *)
(* dev.obj are their contents: for a BG pixel the tile map its row was     *)
(* fetched from, for an OBJ pixel its colour and the OAM index of the      *)
(* sprite it belongs to (in place of the palette and priority copied from  *)
(* that sprite).  dev.row lists, for the pixels of the line written to the *)
(* framebuffer so far, the map of the BG pixel and the sprite of the OBJ   *)
(* pixel popped for it (-1: none or transparent); dev.scanned is the       *)
(* sprite list as the OAM scan of that line (dev.pixels.ly) left it.  Tile  *)
(* data comes from a VRAM in which every row of tile t has the low byte t  *)
(* and the high byte 0.                                                    *)
(***************************************************************************)
MaxScanCycles == 71136

\* OAM as the driver hands it over: entry i is bytes 4i..4i+3 (y, x, tile,
\* flags).
OamOf(entries) ==
    [a \in {b \in 0..(4 * Len(entries) - 1) :
                entries[(b \div 4) + 1][(b % 4) + 1] # 0}
        |-> entries[(a \div 4) + 1][(a % 4) + 1]]

\* Thirteen entries: two at the same x, one overlapping them, one cut by the
\* left edge, one cut by the top edge, and eight more on lines 0..7.
ScanSprites ==
    OamOf(<<<<16, 20, 240, 0>>, <<16, 20, 255, 0>>, <<16, 24, 255, 0>>,
            <<16, 4, 255, 0>>, <<10, 60, 255, 0>>>>
          \o [i \in 1..8 |-> <<16, 72 + 8 * i, 255, 0>>])

\* LCDC, SCX, WX, WY, STAT enable bits, LYC and OAM of each set-up.
ScanSetups ==
    { [lcdc |-> 145, scx |-> 0, wx |-> 0, wy |-> 0, stat |-> 0, lyc |-> 0,
       oam |-> EmptyMem],
      [lcdc |-> 179, scx |-> 7, wx |-> 30, wy |-> 2, stat |-> 120,
       lyc |-> 5, oam |-> ScanSprites],
      [lcdc |-> 177, scx |-> 0, wx |-> 7, wy |-> 0, stat |-> 64,
       lyc |-> 153, oam |-> EmptyMem],
      [lcdc |-> 183, scx |-> 3, wx |-> 3, wy |-> 1, stat |-> 8,
       lyc |-> 0, oam |-> ScanSprites] }

LineNew(ly, mode) ==
    [ly |-> ly, scan |-> 0, draw |-> 0, hblank |-> 0, vblank |-> 0,
     order |-> <<mode>>]

\* The line record after one T-cycle spent in mode `spent` that left the
\* PPU in mode `mode`.
LineAfter(line, spent, mode) ==
    [line EXCEPT
        !.scan = IF spent = "OamScan" THEN @ + 1 ELSE @,
        !.draw = IF spent = "Drawing" THEN @ + 1 ELSE @,
        !.hblank = IF spent = "HBlank" THEN @ + 1 ELSE @,
        !.vblank = IF spent = "VBlank" THEN @ + 1 ELSE @,
        !.order = IF mode = spent THEN @ ELSE Append(@, mode)]

VramByte(addr) == IF addr % 2 = 0 THEN (addr \div 16) % 256 ELSE 0

\* The address tick_sprite_fetch reads the row of the sprite from.
SpriteRowAddr(p, sprite) ==
    LET y_flip == Bit(sprite.flags, 6) = 1
        row == W8(p.ly - W8(sprite.y - 16))
        tall == IF y_flip THEN W8(15 - row) ELSE row
        short == IF y_flip THEN W8(7 - row) ELSE row
    IN  IF SpriteHeight(p) = 16
        THEN IF tall >= 8
             THEN BitOr(sprite.tile, 1) * 16 + (tall - 8) * 2
             ELSE (sprite.tile - (sprite.tile % 2)) * 16 + tall * 2
        ELSE sprite.tile * 16 + short * 2

\* The colour mix_sprite_pixels gives to bit `bit` (0 = leftmost) of the
\* sprite's row.
SpriteColor(p, sprite, bit) ==
    LET shift == IF Bit(sprite.flags, 5) = 1 THEN bit ELSE 7 - bit
        addr == SpriteRowAddr(p, sprite)
    IN  2 * Bit(VramByte(addr + 1), shift) + Bit(VramByte(addr), shift)

TransparentPixel == [color |-> 0, is_sprite |-> FALSE, oam_index |-> 0]

\* Mutation of MixSpriteRow: the sprite overwrites the pixels of the
\* sprites mixed before it.
MixSpriteRowOverwrite(obj, p, sprite) ==
    LET clip_left == IF sprite.x < 8 THEN 8 - sprite.x ELSE 0
        pixels_to_write == 8 - clip_left
        padded == obj \o [i \in 1..(pixels_to_write - Len(obj))
                             |-> TransparentPixel]
    IN  [i \in 1..Len(padded) |->
            IF i <= pixels_to_write
            THEN [color |-> SpriteColor(p, sprite, clip_left + i - 1),
                  is_sprite |-> TRUE, oam_index |-> sprite.oam_index]
            ELSE padded[i]]

\* mix_sprite_pixels on the contents of the OBJ FIFO.
MixSpriteRow(obj, p, sprite) ==
    LET clip_left == IF sprite.x < 8 THEN 8 - sprite.x ELSE 0
        pixels_to_write == 8 - clip_left
        padded == obj \o [i \in 1..(pixels_to_write - Len(obj))
                             |-> TransparentPixel]
    IN  [i \in 1..Len(padded) |->
            IF i <= pixels_to_write
               /\ (~padded[i].is_sprite \/ padded[i].color = 0)
            THEN [color |-> SpriteColor(p, sprite, clip_left + i - 1),
                  is_sprite |-> TRUE, oam_index |-> sprite.oam_index]
            ELSE padded[i]]

\* The contents of the FIFOs and of the line after the T-cycle that took
\* the PPU from b to p: what tick_fetcher pushed, what tick_sprite_fetch
\* mixed (the sprite whose x it zeroed), what try_push_pixel popped and
\* wrote, and what start_drawing and activate_window cleared.
PixelsAfter(d, b, p) ==
    LET drawing == b.mode = "Drawing"
        started == b.mode = "OamScan" /\ p.mode = "Drawing"
        pushed == /\ drawing /\ ~b.sprite_fetching
                  /\ TickFetcher(b).bg_fifo.len = b.bg_fifo.len + 8
        mixed == IF drawing
                 THEN {k \in 1..Len(b.sprites) :
                          b.sprites[k].x # 0 /\ p.sprites[k].x = 0}
                 ELSE {}
        discarded == drawing /\ p.scx_discard + 1 = b.scx_discard
        written == drawing /\ p.pixel_x = b.pixel_x + 1
        activated == drawing /\ p.window_active /\ ~b.window_active
        bg1 == IF pushed
               THEN d.bg \o [i \in 1..8 |-> b.fetcher.fetching_window]
               ELSE d.bg
        obj_pixel == IF d.obj = <<>> THEN TransparentPixel ELSE Head(d.obj)
    IN  [bg |-> IF started \/ activated THEN <<>>
                ELSE IF discarded \/ written THEN Tail(bg1) ELSE bg1,
         obj |-> IF started THEN <<>>
                 ELSE IF mixed # {}
                 THEN MixSpriteRow(d.obj, b, b.sprites[Min(mixed)])
                 ELSE IF written /\ d.obj # <<>> THEN Tail(d.obj)
                 ELSE d.obj,
         row |-> IF started THEN <<>>
                 ELSE IF written
                 THEN Append(d.row,
                          [window |-> Head(bg1),
                           sprite |-> IF obj_pixel.is_sprite
                                         /\ obj_pixel.color # 0
                                      THEN obj_pixel.oam_index ELSE -1])
                 ELSE d.row,
         scanned |-> IF started THEN p.sprites ELSE d.scanned,
         ly |-> IF started THEN p.ly ELSE d.ly]

InitScan ==
    /\ \E s \in ScanSetups :
          LET p == [PpuDefault EXCEPT !.lcdc = s.lcdc, !.scx = s.scx,
                                      !.wx = s.wx, !.wy = s.wy,
                                      !.stat = s.stat, !.lyc = s.lyc]
          IN  dev = [ppu |-> p, before |-> p, oam |-> s.oam,
                     if_register |-> 0, if_before |-> 0, last |-> "none",
                     cycles |-> 0, requests |-> 0,
                     line |-> LineNew(0, "OamScan"),
                     done |-> LineNew(-1, "OamScan"),
                     pixels |-> [bg |-> <<>>, obj |-> <<>>, row |-> <<>>,
                                 scanned |-> <<>>, ly |-> 0],
                     obj_before |-> <<>>]
    /\ gb = Unused
    /\ trace = <<>>
    /\ keys = 0
    /\ frame = Unused
    /\ pp = Unused
    /\ sv = Unused

\* Ppu::tick(1, vram, oam) and the collection of the two flags into IF.
ScanTick ==
    /\ dev.cycles < MaxScanCycles
    /\ dev' = Only({
          [dev EXCEPT
              !.ppu = p, !.before = dev.ppu,
              !.if_before = dev.if_register, !.last = "tick",
              !.if_register =
                  BitOr(BitOr(@, IF p.vblank_interrupt THEN 1 ELSE 0),
                        IF p.stat_interrupt THEN 2 ELSE 0),
              !.cycles = @ + 1,
              !.requests = IF p.vblank_interrupt THEN @ + 1 ELSE @,
              !.pixels = PixelsAfter(@, dev.ppu, p),
              !.obj_before = dev.pixels.obj,
              !.line = IF p.ly # dev.ppu.ly THEN LineNew(p.ly, p.mode)
                       ELSE LineAfter(@, dev.ppu.mode, p.mode),
              !.done = IF p.ly # dev.ppu.ly
                       THEN LineAfter(dev.line, dev.ppu.mode, dev.ppu.mode)
                       ELSE @]
          : p \in {PpuTick(dev.ppu, 1, dev.oam)} })
    /\ UNCHANGED <<gb, trace, keys, frame, pp, sv>>

\* An interrupt is dispatched: the lowest pending bit of IF is cleared.
ScanAcknowledge ==
    /\ dev.if_register # 0
    /\ dev' = [dev EXCEPT
                  !.if_register = IF Bit(@, 0) = 1 THEN @ - 1 ELSE 0,
                  !.if_before = dev.if_register, !.last = "dispatch"]
    /\ UNCHANGED <<gb, trace, keys, frame, pp, sv>>

NextScan == ScanTick \/ ScanAcknowledge

SpecScan == InitScan /\ [][NextScan]_vars

\* C25: with the LCD on every visible line passes through OAM scan for
\* exactly 80 T-cycles, then Drawing, then HBlank, in that order and through
\* no other mode, and LY changes exactly 456 T-cycles after the line began;
\* every line 144..153 spends exactly 456 T-cycles in VBlank; after line 153
\* LY is 0 again and the mode OAM scan.
C25_LineTiming ==
    dev.done.ly >= 0 =>
        /\ dev.done.ly < VBlankLine =>
              /\ dev.done.order = <<"OamScan", "Drawing", "HBlank">>
              /\ dev.done.scan = 80
              /\ dev.done.scan + dev.done.draw + dev.done.hblank = 456
              /\ dev.done.vblank = 0
        /\ dev.done.ly >= VBlankLine =>
              /\ dev.done.order = <<"VBlank">>
              /\ dev.done.vblank = 456
              /\ dev.done.scan + dev.done.draw + dev.done.hblank = 0
        /\ dev.line.ly = (dev.done.ly + 1) % 154
        /\ Head(dev.line.order) =
               IF dev.line.ly < VBlankLine THEN "OamScan" ELSE "VBlank"

\* C25 witness: line 153 of the set-up with ten sprites, fine scroll and
\* window has ended and line 0 of the next frame is in its OAM scan.
C25_Witness ==
    /\ dev.done.ly = 153
    /\ dev.done.vblank = 456
    /\ dev.line.ly = 0
    /\ dev.ppu.mode = "OamScan"
    /\ dev.ppu.scx = 7
    /\ dev.cycles > 70224

\* C26: on every visible line Drawing lasts at least 172 T-cycles, whatever
\* SCX, the window and the sprites are.
C26_DrawingLength ==
    (dev.done.ly >= 0 /\ dev.done.ly < VBlankLine) => dev.done.draw >= 172

\* The mode (0, 1 or 2) the last tick entered; 3 when it entered none of
\* them.
Entered ==
    IF dev.ppu.mode # dev.before.mode THEN ModeBits(dev.ppu.mode) ELSE 3

\* C30: the VBlank interrupt (IF bit 0) is requested exactly once per
\* frame, at the change of LY from 143 to 144; the STAT interrupt (IF bit 1)
\* is requested on every entry into mode 0, 1 or 2 whose enable bit (STAT
\* bit 3, 4, 5) is set and on every change of LY after which LY = LYC while
\* STAT bit 6 is set, and at no other time.
C30_Requests ==
    dev.last = "tick" =>
        LET vblank == dev.before.ly = 143 /\ dev.ppu.ly = 144
            stat == \/ Entered \in 0..2 /\ Bit(dev.ppu.stat, Entered + 3) = 1
                    \/ /\ dev.ppu.ly # dev.before.ly
                       /\ dev.ppu.ly = dev.ppu.lyc
                       /\ Bit(dev.ppu.stat, 6) = 1
        IN  /\ dev.ppu.vblank_interrupt <=> vblank
            /\ dev.ppu.stat_interrupt <=> stat
            /\ Bit(dev.if_register, 0) =
                   IF vblank THEN 1 ELSE Bit(dev.if_before, 0)
            /\ Bit(dev.if_register, 1) =
                   IF stat THEN 1 ELSE Bit(dev.if_before, 1)
            /\ dev.requests = (dev.cycles + 4560) \div 70224

\* C30 witness: with only the LYC enable set and LYC = 153 the tick that
\* moves LY to 153 requests the STAT interrupt, after the one VBlank request
\* of the frame was dispatched.
C30_Witness ==
    /\ dev.last = "tick"
    /\ dev.ppu.stat = 64
    /\ dev.before.ly = 152
    /\ dev.ppu.ly = 153
    /\ dev.ppu.stat_interrupt
    /\ dev.if_before = 0
    /\ dev.if_register = 2
    /\ dev.requests = 1

\* The last tick ended the OAM scan of the line.
ScanEnded ==
    /\ dev.last = "tick"
    /\ dev.before.mode = "OamScan"
    /\ dev.ppu.mode = "Drawing"

\* The OAM entries whose vertical span, from y - 16 and 8 or 16 lines high,
\* containsLY.
OnLine ==
    {i \in 0..(OamEntries - 1) :
        LET top == Rd(dev.oam, 4 * i) - 16
        IN  dev.ppu.ly >= top
            /\ dev.ppu.ly < top + (IF Bit(dev.ppu.lcdc, 2) = 1 THEN 16 ELSE 8)}

\* The OAM indices of the sprite list.
Listed == {dev.pixels.scanned[k].oam_index : k \in 1..Len(dev.pixels.scanned)}

\* C27: after the OAM scan of a line the sprite list holds exactly the
\* first min(10, n) of the n OAM entries whose vertical span contains LY,
\* in ascending OAM index, and no sprite outside the list contributes a
\* pixel to the line.
C27_OamScan ==
    /\ ScanEnded =>
          /\ Len(dev.ppu.sprites) =
                 IF Cardinality(OnLine) < 10 THEN Cardinality(OnLine) ELSE 10
          /\ \A k \in 1..Len(dev.ppu.sprites) :
                /\ dev.ppu.sprites[k].oam_index \in OnLine
                /\ k > 1 => dev.ppu.sprites[k - 1].oam_index
                                < dev.ppu.sprites[k].oam_index
                /\ \A i \in OnLine :
                      i < dev.ppu.sprites[k].oam_index =>
                          \E j \in 1..(k - 1) :
                              dev.ppu.sprites[j].oam_index = i
    /\ \A c \in 1..Len(dev.pixels.row) :
          dev.pixels.row[c].sprite >= 0 => dev.pixels.row[c].sprite \in Listed

\* Sprite k of the scanned list is opaque at column col (from 0).
OpaqueAt(k, col) ==
    LET sprite == dev.pixels.scanned[k]
        bit == col - (sprite.x - 8)
    IN  /\ sprite.x # 0
        /\ bit \in 0..7
        /\ SpriteColor([dev.ppu EXCEPT !.ly = dev.pixels.ly], sprite, bit) # 0

\* The last tick mixed a sprite into the OBJ FIFO.
Mixed ==
    /\ dev.last = "tick"
    /\ dev.before.mode = "Drawing"
    /\ \E k \in 1..Len(dev.before.sprites) :
          dev.before.sprites[k].x # 0 /\ dev.ppu.sprites[k].x = 0

\* C28: for sprites of the line that share their x, every column shows the
\* pixel of the earliest of them in OAM that is opaque there (unless a
\* sprite at another x owns the column), and a sprite mixed later fills only
\* slots of the OBJ FIFO that are empty or transparent.
C28_SpritePriority ==
    /\ Len(dev.pixels.obj) = dev.ppu.obj_fifo.len
    /\ \A c \in 1..Len(dev.pixels.row) :
          \A k \in 1..Len(dev.pixels.scanned) :
              (/\ OpaqueAt(k, c - 1)
               /\ \A j \in 1..(k - 1) :
                     dev.pixels.scanned[j].x = dev.pixels.scanned[k].x
                         => ~OpaqueAt(j, c - 1))
              => \/ dev.pixels.row[c].sprite = dev.pixels.scanned[k].oam_index
                 \/ \E j \in 1..Len(dev.pixels.scanned) :
                       /\ dev.pixels.scanned[j].x # dev.pixels.scanned[k].x
                       /\ dev.pixels.row[c].sprite
                              = dev.pixels.scanned[j].oam_index
    /\ Mixed =>
          \A i \in 1..Len(dev.obj_before) :
              (dev.obj_before[i].is_sprite /\ dev.obj_before[i].color # 0)
                  => dev.pixels.obj[i] = dev.obj_before[i]

\* C28 witness: OAM entries 0 and 1 share x = 20; entry 0 is opaque in its
\* left half only, so columns 12..15 show entry 0 and column 16 entry 1,
\* which was mixed onto the pixels of entry 0 in the cycle before.
C28_Witness ==
    /\ Mixed
    /\ dev.ppu.ly = 0
    /\ Len(dev.obj_before) = 8
    /\ dev.obj_before[1].oam_index = 0
    /\ dev.obj_before[5].color = 0
    /\ dev.pixels.obj[1].oam_index = 0
    /\ dev.pixels.obj[5].oam_index = 1
    /\ dev.pixels.obj[5].color # 0

\* The window is to be shown on the line PPU state p draws: it is enabled,
\* WY was reached in this frame and WX is on the screen.
WindowDue(p) == Bit(p.lcdc, 5) = 1 /\ p.wy_triggered /\ p.wx <= 166

\* The first column of the window for WX.
WindowColumn(wx) == IF wx > 7 THEN wx - 7 ELSE 0

\* C29: on a visible line with LCDC bit 5 set and WY reached, for WX in
\* 0..166, the window becomes active when pixel-x reaches WX - 7 (at the
\* start of the line for WX <= 7), with the BG FIFO cleared and the fetcher
\* restarted at window tile column 0, so every pixel of the line at
\* x >= max(0, WX - 7) comes from the window map; the window-line counter
\* advances by exactly 1 at the end of such a line and by 0 at the end of a
\* line on which the window did not become active.
C29_Window ==
    /\ (/\ dev.ppu.mode \in {"Drawing", "HBlank"}
        /\ dev.pixels.ly = dev.ppu.ly
        /\ WindowDue(dev.ppu))
           => \A c \in 1..Len(dev.pixels.row) :
                 c - 1 >= WindowColumn(dev.ppu.wx) => dev.pixels.row[c].window
    /\ (/\ dev.last = "tick"
        /\ dev.before.mode = "Drawing"
        /\ dev.ppu.window_active /\ ~dev.before.window_active)
           => /\ dev.ppu.pixel_x = WindowColumn(dev.ppu.wx)
              /\ dev.pixels.bg = <<>>
              /\ dev.ppu.bg_fifo.len = 0
              /\ dev.ppu.fetcher = [FetcherNew EXCEPT !.fetching_window = TRUE]
    /\ (/\ dev.last = "tick"
        /\ dev.before.mode = "HBlank"
        /\ dev.ppu.ly # dev.before.ly)
           => /\ WindowDue(dev.before)
                    => dev.ppu.window_line_counter
                           = dev.before.window_line_counter + 1
              /\ ~dev.before.window_active
                    => dev.ppu.window_line_counter
                           = dev.before.window_line_counter

(***************************************************************************)
(* Specification SpecRtc: the real-time clock of an MBC3 cartridge, driven *)
(* by register writes, latches and the passing of wall-clock seconds.      *)
(* dev.now is the system time in seconds since the epoch, read by          *)
(* Rtc::new, Rtc::latch and Rtc::write.                                    *)
(***************************************************************************)
MaxRtcOps == 3
MaxRtcSeconds == 2

\* The system time at which the cartridge is loaded.
RtcEpoch == 1700000000

RtcRegisters == 8..12
RtcValues == {0, 1, 23, 59, 60, 64, 128, 255}

\* Rtc::new at system time now.
RtcNew(now) ==
    [seconds |-> 0, minutes |-> 0, hours |-> 0, days_low |-> 0,
     days_high |-> 0, latched |-> <<0, 0, 0, 0, 0>>, base_timestamp |-> now]

\* u64 saturating_sub.
SaturatingSub(a, b) == IF a > b THEN a - b ELSE 0

\* Rtc::latch at system time now.
RtcLatch(rtc, now) ==
    IF Bit(rtc.days_high, 6) = 1
    THEN [rtc EXCEPT !.latched = <<rtc.seconds, rtc.minutes, rtc.hours,
                                   rtc.days_low, rtc.days_high>>]
    ELSE LET total_seconds == SaturatingSub(now, rtc.base_timestamp)
             days == total_seconds \div 86400
             day_msb == IF days > 255 THEN 1 ELSE 0
             day_overflow == IF days > 511 THEN 128 ELSE 0
         IN  [rtc EXCEPT
                 !.latched = <<total_seconds % 60,
                               (total_seconds \div 60) % 60,
                               (total_seconds \div 3600) % 24,
                               days % 256,
                               BitAnd(rtc.days_high, 64) + day_overflow
                                   + day_msb>>]

\* Rtc::read.
RtcRead(rtc, reg) == IF reg \in 8..12 THEN rtc.latched[reg - 7] ELSE 255

\* Rtc::write at system time now.
RtcWrite(rtc, reg, value, now) ==
    LET r == CASE reg = 8 -> [rtc EXCEPT !.seconds = BitAnd(value, 63)]
               [] reg = 9 -> [rtc EXCEPT !.minutes = BitAnd(value, 63)]
               [] reg = 10 -> [rtc EXCEPT !.hours = BitAnd(value, 31)]
               [] reg = 11 -> [rtc EXCEPT !.days_low = value]
               [] reg = 12 -> [rtc EXCEPT !.days_high = BitAnd(value, 193)]
               [] OTHER -> rtc
        days == 256 * (r.days_high % 2) + r.days_low
        total_seconds ==
            days * 86400 + r.hours * 3600 + r.minutes * 60 + r.seconds
    IN  [r EXCEPT !.base_timestamp = SaturatingSub(now, total_seconds)]

\* The stored value of register reg.
RtcStored(rtc, reg) ==
    CASE reg = 8 -> rtc.seconds
      [] reg = 9 -> rtc.minutes
      [] reg = 10 -> rtc.hours
      [] reg = 11 -> rtc.days_low
      [] OTHER -> rtc.days_high

InitRtc ==
    /\ dev = [rtc |-> RtcNew(RtcEpoch), now |-> RtcEpoch, ops |-> 0,
              last |-> "none", prev |-> "none", reg |-> 0, value |-> 0]
    /\ gb = Unused
    /\ trace = <<>>
    /\ keys = 0
    /\ frame = Unused
    /\ pp = Unused
    /\ sv = Unused

\* A write to 0xA000..0xBFFF with an RTC register selected.
RtcWriteRegister ==
    /\ dev.ops < MaxRtcOps
    /\ \E reg \in RtcRegisters, value \in RtcValues :
          dev' = [dev EXCEPT
                     !.rtc = RtcWrite(@, reg, value, dev.now),
                     !.ops = @ + 1, !.prev = dev.last, !.last = "write",
                     !.reg = reg, !.value = value]
    /\ UNCHANGED <<gb, trace, keys, frame, pp, sv>>

\* The write of 1 after 0 to 0x6000..0x7FFF.
RtcLatchWrite ==
    /\ dev.ops < MaxRtcOps
    /\ dev' = [dev EXCEPT
                  !.rtc = RtcLatch(@, dev.now),
                  !.ops = @ + 1, !.prev = dev.last, !.last = "latch"]
    /\ UNCHANGED <<gb, trace, keys, frame, pp, sv>>

\* A second of wall-clock time passes.
RtcSecond ==
    /\ dev.now < RtcEpoch + MaxRtcSeconds
    /\ dev' = [dev EXCEPT !.now = @ + 1, !.prev = dev.last,
                          !.last = "second"]
    /\ UNCHANGED <<gb, trace, keys, frame, pp, sv>>

NextRtc == RtcWriteRegister \/ RtcLatchWrite \/ RtcSecond

SpecRtc == InitRtc /\ [][NextRtc]_vars

\* C31: for every RTC register and every byte written to it, a latch made
\* in the same wall-clock second as the write reads back, in that register,
\* the value the write stored (the byte restricted to the register's bits).
C31_RtcWriteLatch ==
    (dev.last = "latch" /\ dev.prev = "write")
        => RtcRead(dev.rtc, dev.reg) = RtcStored(dev.rtc, dev.reg)

(***************************************************************************)
(* Specification SpecAlu: the 8-bit additions and subtractions of the CPU  *)
(* applied once to every accumulator, operand and flag byte.  dev.before   *)
(* is the register pair A, F before the instruction, dev.value the operand *)
(* resolve_byte_target returned.                                           *)
(***************************************************************************)
AluBytes == 0..255

\* F before the instruction: no flag, carry only, all four flags.
AluFlags == {0, 16, 240}

\* The byte of FlagsRegister with the given zero, subtract, half_carry and
\* carry.
FlagsOf(zero, subtract, half_carry, carry) ==
    (IF zero THEN 128 ELSE 0) + (IF subtract THEN 64 ELSE 0)
    + (IF half_carry THEN 32 ELSE 0) + (IF carry THEN 16 ELSE 0)

\* u8::overflowing_add and overflowing_sub.
OverflowingAdd(a, b) == [value |-> (a + b) % 256, overflow |-> a + b > 255]
OverflowingSub(a, b) == [value |-> (a - b + 256) % 256, overflow |-> a < b]

\* CPU::add and the store of the ADD arm.
Add(r, value) ==
    LET s == OverflowingAdd(r.a, value)
    IN  [r EXCEPT !.a = s.value,
                  !.f = FlagsOf(s.value = 0, FALSE,
                                (r.a % 16) + (value % 16) > 15, s.overflow)]

\* Mutation of Adc: the half carry leaves the carry-in out.
AdcHalfWithoutCarry(r, value) ==
    LET carry_in == Bit(r.f, 4)
        s1 == OverflowingAdd(r.a, value)
        s2 == OverflowingAdd(s1.value, carry_in)
    IN  [r EXCEPT !.a = s2.value,
                  !.f = FlagsOf(s2.value = 0, FALSE,
                                (r.a % 16) + (value % 16) > 15,
                                s1.overflow \/ s2.overflow)]

\* CPU::adc and the store of the ADC arm.
Adc(r, value) ==
    LET carry_in == Bit(r.f, 4)
        s1 == OverflowingAdd(r.a, value)
        s2 == OverflowingAdd(s1.value, carry_in)
    IN  [r EXCEPT !.a = s2.value,
                  !.f = FlagsOf(s2.value = 0, FALSE,
                                (r.a % 16) + (value % 16) + carry_in > 15,
                                s1.overflow \/ s2.overflow)]

\* CPU::sub and the store of the SUB arm.
Sub(r, value) ==
    LET s == OverflowingSub(r.a, value)
    IN  [r EXCEPT !.a = s.value,
                  !.f = FlagsOf(s.value = 0, TRUE,
                                (r.a % 16) < (value % 16), s.overflow)]

\* CPU::sbc and the store of the SBC arm.
Sbc(r, value) ==
    LET carry_in == Bit(r.f, 4)
        s1 == OverflowingSub(r.a, value)
        s2 == OverflowingSub(s1.value, carry_in)
    IN  [r EXCEPT !.a = s2.value,
                  !.f = FlagsOf(s2.value = 0, TRUE,
                                (r.a % 16) < (value % 16) + carry_in,
                                s1.overflow \/ s2.overflow)]

\* CPU::cp.
Cp(r, value) ==
    LET s == OverflowingSub(r.a, value)
    IN  [r EXCEPT !.f = FlagsOf(s.value = 0, TRUE,
                                (r.a % 16) < (value % 16), s.overflow)]

InitAlu ==
    /\ \E a \in AluBytes, f \in AluFlags :
          dev = [registers |-> [a |-> a, f |-> f],
                 before |-> [a |-> a, f |-> f],
                 op |-> "none", value |-> 0]
    /\ gb = Unused
    /\ trace = <<>>
    /\ keys = 0
    /\ frame = Unused
    /\ pp = Unused
    /\ sv = Unused

\* The registers after instruction op with operand value.
AluStep(op, after) ==
    /\ dev.op = "none"
    /\ \E value \in AluBytes :
          dev' = [dev EXCEPT
                     !.registers = after[value], !.before = dev.registers,
                     !.op = op, !.value = value]
    /\ UNCHANGED <<gb, trace, keys, frame, pp, sv>>

AluADD == AluStep("ADD", [v \in AluBytes |-> Add(dev.registers, v)])
AluADC == AluStep("ADC", [v \in AluBytes |-> Adc(dev.registers, v)])
AluSUB == AluStep("SUB", [v \in AluBytes |-> Sub(dev.registers, v)])
AluSBC == AluStep("SBC", [v \in AluBytes |-> Sbc(dev.registers, v)])
AluCP == AluStep("CP", [v \in AluBytes |-> Cp(dev.registers, v)])

NextAlu == AluADD \/ AluADC \/ AluSUB \/ AluSBC \/ AluCP

SpecAlu == InitAlu /\ [][NextAlu]_vars

\* The carry-in of the last instruction: F bit 4 for ADC and SBC.
CarryIn == IF dev.op \in {"ADC", "SBC"} THEN Bit(dev.before.f, 4) ELSE 0

\* C32: ADD and ADC store (a + v + c) mod 256 in A, SUB and SBC store
\* (a - v - c) mod 256 and CP leaves A unchanged (c = 0 for ADD, SUB, CP);
\* Z is set iff the 8-bit result is 0, N is 0 for additions and 1 for
\* subtractions, H is set iff there is a carry or borrow out of bit 3 and
\* C iff there is one out of bit 7 of the three-operand sum or difference.
C32_AluFlags ==
    dev.op # "none" =>
        LET a == dev.before.a
            v == dev.value
            c == CarryIn
            adds == dev.op \in {"ADD", "ADC"}
            full == IF adds THEN a + v + c ELSE a - v - c
            low == IF adds THEN (a % 16) + (v % 16) + c
                   ELSE (a % 16) - (v % 16) - c
            result == (full + 256) % 256
        IN  /\ dev.registers.a = IF dev.op = "CP" THEN a ELSE result
            /\ Bit(dev.registers.f, 7) = 1 <=> result = 0
            /\ Bit(dev.registers.f, 6) = IF adds THEN 0 ELSE 1
            /\ Bit(dev.registers.f, 5) = 1 <=> (low > 15 \/ low < 0)
            /\ Bit(dev.registers.f, 4) = 1 <=> (full > 255 \/ full < 0)

\* C32 witness: A = 0x3A, operand 0xC6, ADD: A = 0x00 with Z, H and C set
\* and N clear.
C32_Witness ==
    /\ dev.op = "ADD"
    /\ dev.before.a = 58
    /\ dev.value = 198
    /\ dev.registers.a = 0
    /\ dev.registers.f = 176

\* ---------------------------------------------------------------------
\* The shared audio queue: main.rs setup_audio and drain_audio_samples.
\* The emulator thread appends the APU's sample_buffer to the queue under
\* the queue's mutex; the audio callback, on the host's audio thread,
\* pops from the queue under the same mutex.  Samples are numbered in
\* production order.  Mutex::lock suspends the caller while the other
\* thread holds the mutex.
\* ---------------------------------------------------------------------

MaxProduced == 8
AudioRate == 45
FrameSamples == 1..5
CallbackLens == {1, 2, 4}

\* max_samples of drain_audio_samples.
MaxSamples(sample_rate) == (sample_rate * 2 * 4) \div 60

\* buffer.extend(sample_buffer.drain(..)) and the removal of the excess
\* from the front: the queue after the drain and the samples removed.
DrainKeepNewest(queue, samples, sample_rate) ==
    LET all == queue \o samples
        max_samples == MaxSamples(sample_rate)
        excess == IF Len(all) > max_samples THEN Len(all) - max_samples ELSE 0
    IN  [queue |-> SubSeq(all, excess + 1, Len(all)),
         dropped |-> { all[i] : i \in 1..excess }]

InitAudio ==
    /\ dev = [queue |-> <<>>, sample_buffer |-> <<>>, produced |-> 0,
              mutex |-> "free", emulator |-> "run", callback |-> "idle",
              data_len |-> 0, drain_count |-> 0, i |-> 0,
              data |-> <<>>, received |-> <<>>, dropped |-> {},
              panicked |-> FALSE, last |-> "none"]
    /\ gb = Unused
    /\ trace = <<>>
    /\ keys = 0
    /\ frame = Unused
    /\ pp = Unused
    /\ sv = Unused

\* The emulator thread runs a frame: the APU leaves its samples in
\* sample_buffer, and the thread calls drain_audio_samples.
AudioRunFrame ==
    /\ dev.emulator = "run"
    /\ \E n \in FrameSamples :
          /\ dev.produced + n <= MaxProduced
          /\ dev' = [dev EXCEPT
                        !.sample_buffer =
                            [k \in 1..n |-> dev.produced + k],
                        !.produced = @ + n,
                        !.emulator = "lock", !.last = "frame"]
    /\ UNCHANGED <<gb, trace, keys, frame, pp, sv>>

\* audio_buffer.lock() of drain_audio_samples returns.
AudioDrainLock ==
    /\ dev.emulator = "lock"
    /\ dev.mutex = "free"
    /\ dev' = [dev EXCEPT !.mutex = "emulator", !.emulator = "locked",
                          !.last = "lock"]
    /\ UNCHANGED <<gb, trace, keys, frame, pp, sv>>

\* The body of drain_audio_samples; the guard is dropped at its end.
AudioDrain ==
    /\ dev.emulator = "locked"
    /\ LET d == DrainKeepNewest(dev.queue, dev.sample_buffer, AudioRate)
       IN  dev' = [dev EXCEPT
                      !.queue = d.queue, !.sample_buffer = <<>>,
                      !.dropped = @ \cup d.dropped,
                      !.mutex = "free", !.emulator = "run",
                      !.last = "drain"]
    /\ UNCHANGED <<gb, trace, keys, frame, pp, sv>>

\* The host calls the callback with an output slice of data_len samples;
\* buffer_clone.lock() returns and drain_count is computed.
AudioCallbackLock ==
    /\ dev.callback = "idle"
    /\ dev.mutex = "free"
    /\ ~dev.panicked
    /\ \E data_len \in CallbackLens :
          dev' = [dev EXCEPT
                     !.mutex = "callback", !.callback = "pop",
                     !.data_len = data_len,
                     !.drain_count =
                         IF data_len < Len(dev.queue) THEN data_len
                         ELSE Len(dev.queue),
                     !.i = 0, !.data = <<>>, !.last = "callback"]
    /\ UNCHANGED <<gb, trace, keys, frame, pp, sv>>

\* One iteration of the callback's loop: data[i] = pop_front().unwrap().
AudioCallbackPop ==
    /\ dev.callback = "pop"
    /\ dev.i < dev.drain_count
    /\ IF dev.queue = <<>>
       THEN dev' = [dev EXCEPT !.panicked = TRUE, !.callback = "idle",
                               !.mutex = "free", !.last = "pop"]
       ELSE dev' = [dev EXCEPT
                       !.queue = Tail(@), !.data = Append(@, Head(dev.queue)),
                       !.received = Append(@, Head(dev.queue)),
                       !.i = @ + 1, !.last = "pop"]
    /\ UNCHANGED <<gb, trace, keys, frame, pp, sv>>

\* The rest of the callback: the remainder of the slice holds the last
\* sample, and the guard is dropped.
AudioCallbackReturn ==
    /\ dev.callback = "pop"
    /\ dev.i = dev.drain_count
    /\ dev' = [dev EXCEPT !.mutex = "free", !.callback = "idle",
                          !.last = "return"]
    /\ UNCHANGED <<gb, trace, keys, frame, pp, sv>>

NextAudio ==
    \/ AudioRunFrame
    \/ AudioDrainLock
    \/ AudioDrain
    \/ AudioCallbackLock
    \/ AudioCallbackPop
    \/ AudioCallbackReturn

SpecAudio == InitAudio /\ [][NextAudio]_vars

\* The emulator thread is suspended in lock() by the callback.
ProducerBlocked == dev.emulator = "lock" /\ dev.mutex = "callback"

\* After a drain the queue holds at most four frames of stereo samples.
QueueBounded ==
    dev.last = "drain" => Len(dev.queue) <= (AudioRate * 2 * 4) \div 60

\* Every discarded sample is older than every sample kept or received
\* after it: nothing in the queue is older than a discarded sample.
DiscardsOldest ==
    \A d \in dev.dropped : \A k \in 1..Len(dev.queue) : d < dev.queue[k]

\* The callback receives samples in production order, and the queue
\* continues that order.
InProductionOrder ==
    LET all == dev.received \o dev.queue
    IN  \A k \in 1..(Len(all) - 1) : all[k] < all[k + 1]

\* C33: under every interleaving of the emulator thread's drain and the
\* audio callback, the emulator thread is never suspended by the callback,
\* after each drain the queue holds at most sample_rate * 2 * 4 / 60
\* samples, the discarded samples are the oldest, the callback receives
\* the rest in production order, and it never pops from an empty queue.
C33_AudioQueue ==
    /\ ~ProducerBlocked
    /\ QueueBounded
    /\ DiscardsOldest
    /\ InProductionOrder
    /\ ~dev.panicked

\* ---------------------------------------------------------------------
\* Specification SpecTima: the bus's timer with TAC, TIMA, TMA and the
\* internal counter as a guest program has set them, ticked the two ways
\* the emulator ticks it: tick_m_cycle on every bus access and the
\* leftover tick of run_step, both of which move Timer::interrupt into
\* IF bit 2 before they return.  Register writes come between ticks.
\* ---------------------------------------------------------------------

MaxTimaCycles == 32
MaxTimaWrites == 1

TacValues == 0..7
TimaValues == {0, 254, 255}
TmaValues == {0, 171}
CounterValues == {8, 1016, 65528}
LeftoverSizes == {4, 8, 12}
TimaWrites == {<<DIV, 0>>, <<65287, 5>>, <<65287, 3>>, <<65286, 7>>}

InitTima ==
    /\ \E tac \in TacValues, tima \in TimaValues, tma \in TmaValues,
          counter \in CounterValues :
          LET bus == [BusNew(CartridgeOf(EmptyMem)) EXCEPT
                         !.timer = [TimerDefault EXCEPT
                                       !.tac = tac, !.tima = tima,
                                       !.tma = tma,
                                       !.internal_counter = counter]]
          IN  dev = [bus |-> bus, before |-> bus, cycles |-> 0,
                     writes |-> 0, last |-> [kind |-> "none", n |-> 0]]
    /\ gb = Unused
    /\ trace = <<>>
    /\ keys = 0
    /\ frame = Unused
    /\ pp = Unused
    /\ sv = Unused

\* MemoryBus::tick_m_cycle, called by every ticking bus access.
TimaMCycle ==
    /\ dev.cycles + 4 <= MaxTimaCycles
    /\ dev' = [dev EXCEPT
                  !.bus = TickMCycle(dev.bus), !.before = dev.bus,
                  !.cycles = @ + 4, !.last = [kind |-> "tick", n |-> 4]]
    /\ UNCHANGED <<gb, trace, keys, frame, pp, sv>>

\* The leftover tick of run_step: the cycles step() returned beyond those
\* its bus accesses ticked.
TimaLeftover ==
    /\ \E remaining \in LeftoverSizes :
          /\ dev.cycles + remaining <= MaxTimaCycles
          /\ dev' = [dev EXCEPT
                        !.bus = LeftoverTick(
                                    [dev.bus EXCEPT !.cycles_ticked = 0],
                                    remaining),
                        !.before = dev.bus,
                        !.cycles = @ + remaining,
                        !.last = [kind |-> "tick", n |-> remaining]]
    /\ UNCHANGED <<gb, trace, keys, frame, pp, sv>>

\* A write of DIV, TAC or TMA through Timer::write.
TimaRegisterWrite ==
    /\ dev.writes < MaxTimaWrites
    /\ \E w \in TimaWrites :
          \E r \in {TimerWrite([timer |-> dev.bus.timer, apu |-> dev.bus.apu],
                               w[1], w[2])} :
             dev' = [dev EXCEPT
                        !.bus = [dev.bus EXCEPT !.timer = r.timer,
                                                !.apu = r.apu],
                        !.before = dev.bus,
                        !.writes = @ + 1,
                        !.last = [kind |-> "write", n |-> w[1]]]
    /\ UNCHANGED <<gb, trace, keys, frame, pp, sv>>

NextTima == TimaMCycle \/ TimaLeftover \/ TimaRegisterWrite

SpecTima == InitTima /\ [][NextTima]_vars

\* The 1 -> 0 transitions of bit b of the internal counter in n ticks from
\* counter: the multiples of 2^(b+1) the count passes or reaches.
FallingEdges(counter, n, b) ==
    ((counter + n) \div (2 ^ (b + 1))) - (counter \div (2 ^ (b + 1)))

\* The bit TAC & 3 selects: 9, 3, 5, 7.
SelectedBit(tac) == <<9, 3, 5, 7>>[(tac % 4) + 1]

\* TIMA after k increments, reloaded with TMA on each overflow.
RECURSIVE TimaAfter(_, _, _)
TimaAfter(tima, tma, k) ==
    IF k = 0 THEN tima
    ELSE TimaAfter(IF tima = 255 THEN tma ELSE tima + 1, tma, k - 1)

\* The edges of the selected bit in the last tick, 0 with TAC bit 2 clear.
LastEdges ==
    IF Bit(dev.before.timer.tac, 2) = 0 THEN 0
    ELSE FallingEdges(dev.before.timer.internal_counter, dev.last.n,
                      SelectedBit(dev.before.timer.tac))

\* C34: with TAC bit 2 set, a tick increments TIMA once per 1 -> 0
\* transition of internal-counter bit 9, 3, 5 or 7 (TAC & 3 = 0, 1, 2, 3)
\* and TIMA changes at no other time: not in a tick without such a
\* transition, not with TAC bit 2 clear, not by a write of DIV, TAC or TMA.
\* An increment past 0xFF reloads TIMA with TMA and IF bit 2 is set when
\* the tick returns, before the next interrupt check.
C34_TimaFallingEdge ==
    /\ dev.last.kind = "write" =>
           /\ dev.bus.timer.tima = dev.before.timer.tima
           /\ dev.bus.if_register = dev.before.if_register
    /\ dev.last.kind = "tick" =>
           /\ dev.bus.timer.tima =
                  TimaAfter(dev.before.timer.tima, dev.before.timer.tma,
                            LastEdges)
           /\ dev.bus.if_register =
                  IF dev.before.timer.tima + LastEdges > 255
                  THEN BitOr(dev.before.if_register, 4)
                  ELSE dev.before.if_register
           /\ ~dev.bus.timer.interrupt

\* C34 witness: TAC = 4 selects bit 9; the tick from 1020 to 1024 clears
\* it, TIMA = 0xFF is reloaded with TMA = 0xAB and IF bit 2 is set.
C34_Witness ==
    /\ dev.last.kind = "tick"
    /\ dev.before.timer.tac = 4
    /\ dev.before.timer.internal_counter = 1020
    /\ dev.bus.timer.internal_counter = 1024
    /\ dev.before.timer.tima = 255
    /\ dev.bus.timer.tima = 171
    /\ dev.before.if_register = 0
    /\ dev.bus.if_register = 4

\* ---------------------------------------------------------------------
\* Specification SpecLength: the APU powered on with all four DACs on,
\* a guest program's writes to the length registers NRx1 and the control
\* registers NRx4 in the first frame-sequencer steps, and the frame
\* sequencer clocked on for more than 256 length clocks.  dev.quiet[n]
\* counts the length clocks since the last write to channel n.
\* ---------------------------------------------------------------------

MaxLengthWrites == 2
MaxSetupClocks == 2
MaxLengthClocks == 516

LengthRegisters == {1, 4}
LengthValues ==
    [reg \in LengthRegisters |->
        IF reg = 1 THEN {0, 63, 255} ELSE {64, 128, 192}]

\* NR52 = 0x80, then NR12, NR22, NR42 = 0xF0 and NR30 = 0x80.
ApuDacsOn ==
    WriteRegisters(ApuDefault,
        << <<NR52, 128>>, <<65298, 240>>, <<65303, 240>>, <<NR30, 128>>,
           <<65313, 240>> >>)

InitLength ==
    /\ dev = [apu |-> ApuDacsOn, before |-> ApuDacsOn,
              writes |-> 0, clocks |-> 0, quiet |-> [n \in 1..4 |-> 0],
              last |-> [kind |-> "none", n |-> 0, reg |-> 0, val |-> 0]]
    /\ gb = Unused
    /\ trace = <<>>
    /\ keys = 0
    /\ frame = Unused
    /\ pp = Unused
    /\ sv = Unused

\* A guest write to NRn1 or NRn4.
LengthWrite ==
    /\ dev.writes < MaxLengthWrites
    /\ dev.clocks <= MaxSetupClocks
    /\ \E n \in 1..4, reg \in LengthRegisters :
          \E val \in LengthValues[reg] :
             dev' = [dev EXCEPT
                        !.apu = WriteRegister(dev.apu,
                                    65296 + (5 * (n - 1)) + reg, val),
                        !.before = dev.apu,
                        !.writes = @ + 1,
                        !.quiet[n] = 0,
                        !.last = [kind |-> "write", n |-> n, reg |-> reg,
                                  val |-> val]]
    /\ UNCHANGED <<gb, trace, keys, frame, pp, sv>>

\* A falling edge of DIV bit 12: Apu::clock_frame_sequencer.
LengthClock ==
    /\ dev.clocks < MaxLengthClocks
    /\ dev' = [dev EXCEPT
                  !.apu = ClockFrameSequencer(dev.apu),
                  !.before = dev.apu,
                  !.clocks = @ + 1,
                  !.quiet = [n \in 1..4 |->
                                IF dev.apu.frame_step % 2 = 0
                                THEN @[n] + 1 ELSE @[n]],
                  !.last = [kind |-> "clock", n |-> 0, reg |-> 0,
                            val |-> dev.apu.frame_step]]
    /\ UNCHANGED <<gb, trace, keys, frame, pp, sv>>

NextLength == LengthWrite \/ LengthClock

SpecLength == InitLength /\ [][NextLength]_vars

\* The length counter a trigger finds: the counter before the write, less
\* the extra length clock of a write that sets the length-enable bit at
\* an odd frame-sequencer step.
CounterAtTrigger ==
    LET ch == dev.before.channel[dev.last.n]
    IN  IF /\ ~LengthEnable(ch)
           /\ Bit(dev.last.val, 6) = 1
           /\ dev.before.frame_step % 2 = 1
           /\ ch.length_counter > 0
        THEN ch.length_counter - 1 ELSE ch.length_counter

\* C35: each channel's length counter lies in 0..64 (0..256 for channel
\* 3); a trigger leaves a nonzero counter alone and reloads a zero one to
\* the maximum, or to the maximum less 1 when length is enabled and the
\* frame-sequencer step is odd; a length clock with length enabled lowers
\* a nonzero counter by 1 and disables the channel when it reaches 0, so
\* that a channel with length enabled is disabled once 64 (256) length
\* clocks have passed without a write to it.
C35_LengthCounter ==
    /\ \A n \in 1..4 : dev.apu.channel[n].length_counter \in 0..LengthMax(n)
    /\ (dev.last.kind = "write" /\ dev.last.reg = 4
            /\ Bit(dev.last.val, 7) = 1) =>
           dev.apu.channel[dev.last.n].length_counter =
               IF CounterAtTrigger # 0 THEN CounterAtTrigger
               ELSE IF Bit(dev.last.val, 6) = 1
                       /\ dev.before.frame_step % 2 = 1
                    THEN LengthMax(dev.last.n) - 1
                    ELSE LengthMax(dev.last.n)
    /\ (dev.last.kind = "clock" /\ dev.last.val % 2 = 0) =>
           \A n \in 1..4 :
              LET old == dev.before.channel[n]
                  new == dev.apu.channel[n]
              IN  IF LengthEnable(old) /\ old.length_counter > 0
                  THEN /\ new.length_counter = old.length_counter - 1
                       /\ new.length_counter = 0 => ~new.enabled
                  ELSE new.length_counter = old.length_counter
    /\ \A n \in 1..4 :
          (LengthEnable(dev.apu.channel[n]) /\ dev.quiet[n] >= LengthMax(n))
              => ~dev.apu.channel[n].enabled

\* C35 witness: channel 3, triggered with length enabled at an odd step
\* (counter 255), is enabled for 254 length clocks and disabled by the
\* 255th, which brings the counter to 0.
C35_Witness ==
    /\ dev.last.kind = "clock"
    /\ dev.quiet[3] = 255
    /\ LengthEnable(dev.apu.channel[3])
    /\ dev.before.channel[3].enabled
    /\ dev.before.channel[3].length_counter = 1
    /\ dev.apu.channel[3].length_counter = 0
    /\ ~dev.apu.channel[3].enabled

\* ---------------------------------------------------------------------
\* Specification SpecSweep: channel 1 set up by a guest program (NR10,
\* NR12 = 0xF0, NR13, NR14 with the trigger bit and length disabled) in
\* the powered APU, the frame sequencer clocked on, and NR10 rewritten
\* once along the way.
\* ---------------------------------------------------------------------

MaxSweepClocks == 40
MaxSweepWrites == 1

\* NR10: periods 0, 1, 2, both directions, shifts 0, 1, 2, 7.
SweepSetUps ==
    { (16 * period) + (8 * negate) + shift :
         period \in {0, 1, 2}, negate \in {0, 1}, shift \in {0, 1, 2, 7} }
SweepFrequencies == {0, 1, 1000, 1365, 1366, 2047}
SweepRewrites == {0, 17, 25, 33}

ApuSweeping(nr10, frequency) ==
    WriteRegisters(ApuDefault,
        << <<NR52, 128>>, <<65296, nr10>>, <<65298, 240>>,
           <<65299, frequency % 256>>,
           <<65300, 128 + (frequency \div 256)>> >>)

InitSweep ==
    /\ \E nr10 \in SweepSetUps, frequency \in SweepFrequencies :
          dev = [apu |-> ApuSweeping(nr10, frequency),
                 before |-> ApuSweeping(nr10, frequency),
                 clocks |-> 0, writes |-> 0, expiries |-> 0,
                 last |-> [kind |-> "none", val |-> 0]]
    /\ gb = Unused
    /\ trace = <<>>
    /\ keys = 0
    /\ frame = Unused
    /\ pp = Unused
    /\ sv = Unused

\* A falling edge of DIV bit 12: clock_frame_sequencer, which calls
\* channel1.clock_sweep on steps 2 and 6.
SweepClock ==
    /\ dev.clocks < MaxSweepClocks
    /\ dev' = [dev EXCEPT
                  !.apu = ClockFrameSequencer(dev.apu),
                  !.before = dev.apu,
                  !.clocks = @ + 1,
                  !.expiries =
                      IF dev.apu.frame_step \in {2, 6}
                         /\ dev.apu.channel[1].sweep_timer <= 1
                      THEN @ + 1 ELSE @,
                  !.last = [kind |-> "clock", val |-> dev.apu.frame_step]]
    /\ UNCHANGED <<gb, trace, keys, frame, pp, sv>>

\* A guest write to NR10.
SweepWrite ==
    /\ dev.writes < MaxSweepWrites
    /\ \E val \in SweepRewrites :
          dev' = [dev EXCEPT
                     !.apu = WriteRegister(dev.apu, 65296, val),
                     !.before = dev.apu,
                     !.writes = @ + 1,
                     !.last = [kind |-> "write", val |-> val]]
    /\ UNCHANGED <<gb, trace, keys, frame, pp, sv>>

NextSweep == SweepClock \/ SweepWrite

SpecSweep == InitSweep /\ [][NextSweep]_vars

\* shadow +/- (shadow >> shift) under the NR10 of channel ch.
SweepSum(ch, shadow) ==
    IF SweepNegate(ch) THEN shadow - (shadow \div (2 ^ SweepShift(ch)))
    ELSE shadow + (shadow \div (2 ^ SweepShift(ch)))

\* The last operation was a sweep clock that found the timer run out.
SweepExpired ==
    /\ dev.last.kind = "clock"
    /\ dev.last.val \in {2, 6}
    /\ dev.before.channel[1].sweep_timer <= 1

\* What the sweep calculation leaves in channel 1, from old to new.
SweepCalculated(old, new) ==
    LET new_freq == SweepSum(old, old.sweep_shadow_frequency)
    IN  /\ new_freq > 2047 => ~new.enabled
        /\ (SweepShift(old) # 0 /\ new_freq <= 2047) =>
               /\ new.sweep_shadow_frequency = new_freq
               /\ Frequency(new) = new_freq
               /\ new.nr4 \div 8 = old.nr4 \div 8
               /\ SweepSum(old, new_freq) > 2047 => ~new.enabled
        /\ (SweepShift(old) = 0 \/ new_freq > 2047) =>
               /\ new.sweep_shadow_frequency = old.sweep_shadow_frequency
               /\ Frequency(new) = Frequency(old)

\* The shadow frequency and the channel frequency are at most 2047.
SweepInRange ==
    /\ dev.apu.channel[1].sweep_shadow_frequency \in 0..2047
    /\ Frequency(dev.apu.channel[1]) \in 0..2047

\* C36 as stated: on each expiry of channel 1's sweep timer the timer is
\* reloaded with the sweep period, or 8 when it is 0, the new frequency is
\* computed, the channel disabled if it exceeds 2047, and with a nonzero
\* shift and a valid result it is written back and checked once more; the
\* shadow and channel frequencies never exceed 2047.
C36_SweepEachExpiry ==
    /\ SweepInRange
    /\ SweepExpired =>
           LET old == dev.before.channel[1]
               new == dev.apu.channel[1]
           IN  /\ new.sweep_timer =
                      IF SweepPeriod(old) > 0 THEN SweepPeriod(old) ELSE 8
               /\ SweepCalculated(old, new)

\* C36, amended: the calculation is made on the expiries that find the
\* sweep enabled and the period nonzero; on any other expiry the timer is
\* reloaded and the shadow frequency, the frequency registers, the
\* negate-used flag and the enabled flag are left as they were.
C36_SweepEnabledExpiry ==
    /\ SweepInRange
    /\ SweepExpired =>
           LET old == dev.before.channel[1]
               new == dev.apu.channel[1]
           IN  /\ new.sweep_timer =
                      IF SweepPeriod(old) > 0 THEN SweepPeriod(old) ELSE 8
               /\ IF old.sweep_enabled /\ SweepPeriod(old) > 0
                  THEN SweepCalculated(old, new)
                  ELSE /\ new.sweep_shadow_frequency =
                              old.sweep_shadow_frequency
                       /\ new.nr3 = old.nr3
                       /\ new.nr4 = old.nr4
                       /\ new.sweep_negate_used = old.sweep_negate_used
                       /\ ~LengthEnable(old) => new.enabled = old.enabled

\* C36 witness: period 1, shift 2, adding, shadow 1366: the expiry writes
\* 1366 + 341 = 1707 to the shadow and the frequency registers, and the
\* second check, 1707 + 426 = 2133 > 2047, disables the channel.
C36_Witness ==
    /\ SweepExpired
    /\ dev.before.channel[1].enabled
    /\ dev.before.channel[1].nr0 = 18
    /\ dev.before.channel[1].sweep_shadow_frequency = 1366
    /\ dev.apu.channel[1].sweep_shadow_frequency = 1707
    /\ Frequency(dev.apu.channel[1]) = 1707
    /\ ~dev.apu.channel[1].enabled

\* ---------------------------------------------------------------------
\* Specification SpecReti: the emulator of SpecCpu on a cartridge whose
\* ROM also holds interrupt handlers: RETI at the VBlank vector 0x40 and
\* at the joypad vector 0x60, NOP and RETI at the timer vector 0x50.
\* ---------------------------------------------------------------------

RetiOpcodes == {OpNOP, OpHALT, OpRETI, OpDI, OpEI}
RetiIeValues == {0, 5, 31}
RetiIfValues == {0, 1, 5, 21}

\* The ROM with prog at the entry point and the three handlers.
RomWithHandlers(prog) ==
    Wr(Wr(Wr(RomWith(prog), 64, OpRETI), 81, OpRETI), 96, OpRETI)

InitReti ==
    /\ dev = Unused
    /\ \E prog \in [0..(ProgLen - 1) -> RetiOpcodes], ie \in RetiIeValues,
          if \in RetiIfValues, ime \in BOOLEAN,
          timer \in {TimerDefault, TimerArmed} :
          gb = [CpuNew(CartridgeOf(RomWithHandlers(prog))) EXCEPT
                   !.ime = ime, !.bus.ie_register = ie,
                   !.bus.if_register = if, !.bus.timer = timer]
    /\ trace = <<>>
    /\ keys = 0
    /\ frame = Unused
    /\ pp = Unused
    /\ sv = Unused

SpecReti == InitReti /\ [][NextCpu]_vars

\* Step j of the trace executed RETI.
IsReti(j) == trace[j].kind = "exec" /\ trace[j].op = OpRETI

\* Step j is the RETI that ends the handler entered by the dispatch of
\* step i: the steps between execute other instructions.
Returns(i, j) ==
    /\ i < j
    /\ trace[i].kind = "interrupt"
    /\ IsReti(j)
    /\ \A k \in (i + 1)..(j - 1) : trace[k].kind = "exec" /\ ~IsReti(k)

\* C37: RETI leaves IME set when its step returns; if an enabled interrupt
\* is pending at the next step, that step is the dispatch and no
\* instruction executes in between; and the RETI that ends a handler
\* leaves PC at the address the dispatch interrupted and SP at its value
\* before the dispatch.
C37_Reti ==
    \A j \in 1..Len(trace) :
       /\ IsReti(j) => trace[j].post.ime
       /\ (j > 1 /\ IsReti(j - 1) /\ Pending(trace[j].pre) # 0) =>
              trace[j].kind = "interrupt"
       /\ \A i \in 1..(j - 1) :
             Returns(i, j) =>
                /\ trace[j].post.pc = trace[i].pre.pc
                /\ trace[j].post.sp = trace[i].pre.sp

\* C37 witness: with VBlank and timer both pending, the VBlank handler's
\* RETI returns to the entry point, the timer interrupt is dispatched at
\* the next step, and after NOP and RETI the CPU is at the entry point
\* again with the stack pointer where it began.
C37_Witness ==
    /\ Len(trace) = 5
    /\ trace[1].kind = "interrupt" /\ trace[1].bit = 0
    /\ IsReti(2)
    /\ trace[3].kind = "interrupt" /\ trace[3].bit = 2
    /\ trace[3].pre.pc = EntryPoint
    /\ trace[4].kind = "exec" /\ trace[4].op = OpNOP
    /\ IsReti(5)
    /\ gb.pc = EntryPoint
    /\ gb.sp = StackTop
    /\ gb.ime

\* ---------------------------------------------------------------------
\* EI followed by DI, read off the trace of SpecCpu.
\* ---------------------------------------------------------------------

\* Step j of the trace executed opcode op.
Executed(j, op) == trace[j].kind = "exec" /\ trace[j].op = op

\* Step j executed EI and the instruction it leaves PC at is DI.
EiBeforeDi(j) ==
    /\ Executed(j, OpEI)
    /\ NextOpcode(trace[j].post) = OpDI

\* After an EI at step j - 1: step j executes the DI and leaves IME clear,
\* the step after it services no interrupt, and IME is clear after every
\* later step up to the next EI or RETI.
DiClosesWindow(j) ==
    /\ Executed(j, OpDI)
    /\ ~trace[j].post.ime
    /\ j < Len(trace) => trace[j + 1].kind # "interrupt"
    /\ \A k \in (j + 1)..Len(trace) :
          (\A m \in (j + 1)..k : ~Executed(m, OpEI) /\ ~Executed(m, OpRETI))
              => ~trace[k].post.ime

\* C38 as stated: whenever DI is the instruction immediately following
\* EI, no interrupt is serviced between the EI and the instruction after
\* the DI, IME is false when the DI retires and stays false until a later
\* EI or RETI.
C38_EiThenDi ==
    \A j \in 2..Len(trace) : EiBeforeDi(j - 1) => DiClosesWindow(j)

\* C38, amended: the same for an EI that retires with IME clear, which
\* is every EI but one executed with IME already set or as the
\* instruction after another EI.
C38_EiThenDiFromClear ==
    \A j \in 2..Len(trace) :
       (EiBeforeDi(j - 1) /\ ~trace[j - 1].post.ime) => DiClosesWindow(j)

\* C38 witness: EI and DI at the entry point with the VBlank interrupt
\* enabled and pending from the start; the third step executes the next
\* instruction with IME clear and the interrupt still pending.
C38_Witness ==
    /\ Len(trace) = 3
    /\ ~trace[1].pre.ime
    /\ Executed(1, OpEI)
    /\ Executed(2, OpDI)
    /\ trace[3].kind = "exec"
    /\ \A j \in 1..3 : Pending(trace[j].pre) # 0
    /\ Pending(gb) # 0
    /\ ~gb.ime

\* ---------------------------------------------------------------------
\* Specification SpecHaltFrame: the frame drivers on programs that halt:
\* HALT alone, EI and HALT, DI and HALT, next to the loop JR -2, with no
\* interrupt enabled or with VBlank enabled.  The rest of the ROM is NOP.
\* ---------------------------------------------------------------------

HaltPrograms ==
    {<<OpHALT>>, <<OpEI, OpHALT>>, <<OpDI, OpHALT>>, <<OpJR, 254>>}
HaltIeValues == {0, 1}

InitHaltFrame ==
    /\ dev = Unused
    /\ \E q \in HaltPrograms, ie \in HaltIeValues :
          gb = [CpuNew(CartridgeOf(RomAt(EntryPoint, ProgAt0(q)))) EXCEPT
                   !.bus.ie_register = ie]
    /\ frame = [running |-> FALSE, driver |-> "none", breakpoints |-> {},
                cycles_this_frame |-> 0, frames |-> 0, consumed |-> 0,
                last |-> 0, hit |-> FALSE, steps |-> 0, kind |-> "none"]
    /\ trace = <<>>
    /\ keys = 0
    /\ pp = Unused
    /\ sv = Unused

SpecHaltFrame == InitHaltFrame /\ [][NextFrame]_vars

\* The most steps a frame can take: CYCLES_PER_FRAME / 4.
MaxFrameSteps == CYCLES_PER_FRAME \div 4

MaxWakeSteps == 54000
MaxAwakeSteps == 8
MaxWakes == 2

\* EI, HALT and a jump back to the HALT; HALT alone.
WakePrograms == {<<OpEI, OpHALT, OpJR, 253>>, <<OpHALT>>}

\* What the guest has written to IE, LCDC, TAC, TIMA and TMA before it
\* halts: VBlank alone; the timer alone at its slowest with the LCD on;
\* the timer alone about to overflow with the LCD off; both; and VBlank
\* enabled with the LCD off and the timer stopped, which nothing wakes.
WakeSetUps ==
    {[ie |-> 1, lcdc |-> LcdcOn, tac |-> 0, tima |-> 0, tma |-> 0],
     [ie |-> 4, lcdc |-> LcdcOn, tac |-> 4, tima |-> 240, tma |-> 240],
     [ie |-> 4, lcdc |-> LcdcOff, tac |-> 5, tima |-> 255, tma |-> 0],
     [ie |-> 5, lcdc |-> LcdcOn, tac |-> 7, tima |-> 0, tma |-> 0],
     [ie |-> 1, lcdc |-> LcdcOff, tac |-> 0, tima |-> 0, tma |-> 0]}

InitWake ==
    /\ \E q \in WakePrograms, s \in WakeSetUps :
          gb = [CpuNew(CartridgeOf(Wr(Wr(Wr(RomAt(EntryPoint, ProgAt0(q)),
                                            64, OpRETI), 81, OpRETI),
                                      96, OpRETI)))
                EXCEPT !.bus.ie_register = s.ie,
                       !.bus.ppu.lcdc = s.lcdc,
                       !.bus.timer.tac = s.tac,
                       !.bus.timer.tima = s.tima,
                       !.bus.timer.tma = s.tma]
    /\ dev = [since |-> 0, waited |-> 0, wakes |-> 0, awake |-> 0]
    /\ trace = <<>>
    /\ keys = 0
    /\ frame = 0
    /\ pp = Unused
    /\ sv = Unused

\* The driver makes its next call of run_step: the count of calls goes up.
WakeCall ==
    /\ frame < MaxWakeSteps
    /\ dev.wakes < MaxWakes
    /\ (IF gb.halted THEN 0 ELSE dev.awake) < MaxAwakeSteps
    /\ Decodes(NextOpcode(gb))
    /\ frame' = frame + 1

\* One call of GameBoy::run_step.
WakeRunStep ==
    /\ WakeCall
    /\ \E r \in {RunStep(gb)} :
          /\ gb' = r.cpu
          /\ dev' = [since |-> IF r.cpu.halted /\ gb.halted
                               THEN dev.since + r.cycles ELSE 0,
                     waited |-> IF gb.halted /\ ~r.cpu.halted
                                THEN dev.since ELSE dev.waited,
                     wakes |-> IF gb.halted /\ ~r.cpu.halted
                               THEN dev.wakes + 1 ELSE dev.wakes,
                     awake |-> IF r.cpu.halted THEN 0 ELSE dev.awake + 1]
    /\ UNCHANGED <<trace, keys, pp, sv>>

NextWake == WakeRunStep

SpecWake == InitWake /\ [][NextWake]_vars

SpecWakeFair == SpecWake /\ WF_frame(WakeCall)

\* The LCD is on and VBlank is enabled in IE.
VBlankArmed ==
    Bit(gb.bus.ppu.lcdc, 7) = 1 /\ Bit(gb.bus.ie_register, 0) = 1

\* The timer runs and its interrupt is enabled in IE.
TimerRuns ==
    Bit(gb.bus.timer.tac, 2) = 1 /\ Bit(gb.bus.ie_register, 2) = 1

\* C40: a CPU halted with the LCD on and IE bit 0 set has been halted for
\* at most 70,224 T-cycles, and one halted with the LCD on and IE bit 0
\* set, or with TAC bit 2 and IE bit 2 set, eventually leaves the halted
\* state, as long as run_step keeps being called.
C40_HaltedCpuWoken ==
    /\ []((gb.halted /\ VBlankArmed) => dev.since <= CYCLES_PER_FRAME)
    /\ (gb.halted /\ (VBlankArmed \/ TimerRuns)) ~> ~gb.halted

\* C40 witness: the CPU, halted again straight after the VBlank handler
\* returned, has been woken by the next VBlank after more than 70,000 and
\* at most 70,224 T-cycles.
C40_Witness ==
    /\ ~gb.halted
    /\ dev.wakes = 2
    /\ VBlankArmed
    /\ ~TimerRuns
    /\ dev.waited > 70000
    /\ dev.waited <= CYCLES_PER_FRAME

=============================================================================
